---- MODULE Spec2Model ----
(***************************************************************************)
(* Model of the DSS server browser's discovery engine:                     *)
(*   - ServerManager (backend/storage/servers.py): the sqlite table        *)
(*     `servers` and the statements each method runs against it;           *)
(*   - DynamicServerLoader (backend/network/dynamic_servers.py): the       *)
(*     validation of a candidate and the revalidation of the stored rows.  *)
(*                                                                         *)
(* A SQL NULL / Python None is the empty tuple NULL; a present value x is  *)
(* the one-element tuple Some(x), so that the empty string Some("") and    *)
(* NULL stay different values, as they are for sqlite's COALESCE.          *)
(***************************************************************************)
EXTENDS Integers, Sequences, FiniteSets, TLC

\* ------------------------------------------------------------------ bounds

\* mark_query_failure is not taken on a row whose counter reached MaxFailures.
MaxFailures == 2
\* add_server is not taken once sqlite_sequence reached MaxId.
MaxId == 2

\* ------------------------------------------------------------ input domains

\* (ip, port) identities: same ip, different ports.
Keys == {<<"a", 1>>, <<"a", 2>>}
Sources == {"manual", "dynamic", "favorite"}
NULL == <<>>
Some(x) == <<x>>
\* (trusted, important) pairs handed to add_server.
Flags == {<<FALSE, FALSE>>, <<TRUE, FALSE>>, <<FALSE, TRUE>>}
\* website arguments: absent, the empty string, a URL.
Websites == {NULL, Some(""), Some("w1")}
\* the threads of SpecUpsert.
Threads == {"t1", "t2"}
\* The calls of Spec, whose subject is a row's life (source, failures,
\* eviction), all pass the defaults trusted=False, important=False,
\* website=None; the calls of SpecUpsert range over CallFlags and Websites.
DefaultFlags == {<<FALSE, FALSE>>}
DefaultWebsites == {NULL}
\* what query_dss can return: the dict built at the end of query_dss.
Snapshots ==
    { [name |-> "Test", info |-> "Hi", news |-> "", players |-> 5,
       max_players |-> 20, icon |-> <<137, 80>>],
      [name |-> "Other", info |-> "", news |-> "n", players |-> 0,
       max_players |-> 8, icon |-> <<>>] }
\* the outcome of one query_dss call: Some(snapshot), or NULL when it raised.
QueryOutcomes == {NULL} \cup { Some(s) : s \in Snapshots }
\* what datetime.now() returns.
Times == {1}
\* max_failures arguments of cleanup_failed_servers.
Thresholds == 0 .. MaxFailures

\* -------------------------------------------------------------------- state

VARIABLES
    db,      \* the sqlite file: [servers: the rows of table servers,
             \*                   seq: sqlite_sequence of the AUTOINCREMENT id]
    last,    \* the last call made (its name) and what it returned
    hist     \* history of each key, kept for the claims about sequences of
             \* calls: [fails: calls of mark_query_failure on the key's row
             \* since it was inserted or last updated by update_server_info,
             \* origin: how the key's row came to be]

\* Threads calling add_server at the same time, each on a connection of its
\* own (the workers of refresh_dynamic_servers' pool, the UI thread).
VARIABLES
    threads, \* per thread: [pc: where its add_server call stands,
             \*              call: the arguments, pending: the database as its
             \*              open transaction sees it, ret: the id returned]
    lock,    \* sqlite's write lock on the file: NULL or Some(thread)
    prior    \* the database before the first of the concurrent calls

\* DynamicServerLoader at work: a call of refresh_dynamic_servers with the
\* validate_and_add_server calls its pool runs, a call of
\* revalidate_all_servers, and the callbacks triggered.
VARIABLES
    events,  \* the _trigger_callback calls made so far, in order
    refresh, \* the refresh_dynamic_servers call: [pc, max_concurrent,
             \*   servers: the fetched list, futures: the futures that
             \*   as_completed has not handed over yet, new_count,
             \*   failed_count]
    jobs,    \* per submitted future, in the order of submission:
             \*   [pc: where its validate_and_add_server call stands,
             \*    server: the feed entry, info: what the query returned,
             \*    result: what the call returned or raised]
    reval,   \* the revalidate_all_servers call: [pc, servers: the list
             \*   get_all_servers returned, i: index of the row in hand,
             \*   info, success_count, failed_count, log: the queries made
             \*   and the store calls completed, in order]
    fault    \* the store call that raises sqlite3.Error, if any:
             \*   NULL or Some(<<index of the job or row, method>>)

\* What runs beside one refresh: the auto-refresh loop of DynamicServerLoader,
\* a query_dss call on its socket, and a read of the table.
VARIABLES
    auto,    \* [stop_refresh: self._stop_refresh, thread: self._refresh_thread
             \*   ("none", "alive" or "finished"), pc: where refresh_loop
             \*   stands, ticks: iterations of the sleep loop done, cycles:
             \*   times the loop has entered its body, ran: whether this
             \*   thread has called refresh_dynamic_servers, alive: the
             \*   refresh_loop threads started and not yet ended, asked: the
             \*   last of start_auto_refresh and stop_auto_refresh called
             \*   ("restart" for a start that came after a stop)]
    session, \* the query_dss call: [pc, inbox: the bytes the server has
             \*   sent and the call has not read, greeting and reply: the
             \*   packets read, flags, version, netver: what parse_whats_up
             \*   returned, log: what was done on the socket, ret: what the
             \*   call returned or raised]
    lookup   \* the last get_all_servers or search_servers call:
             \*   [op, arg, ret]

storeVars == <<db, last, hist>>
threadVars == <<threads, lock, prior>>
serviceVars == <<auto, session, lookup>>
discoveryVars == <<events, refresh, jobs, reval, fault, serviceVars>>
vars == <<storeVars, threadVars, discoveryVars>>

\* What a call returned, tagged with its kind: values of different kinds are
\* never compared beyond the tag.
RetNone == <<"none">>
RetId(id) == <<"id", id>>
RetBool(b) == <<"bool", b>>
RetKeys(removed) == <<"keys", removed>>
RetCounts(success_count, failed_count) ==
    <<"counts", success_count, failed_count>>

\* ------------------------------------------------------------ the statements

\* WHERE ip = ? AND port = ?, and the columns of UNIQUE(ip, port).
MatchesIpOnly(r, k) == r.ip = k[1]

Matches(r, k) == r.ip = k[1] /\ r.port = k[2]

KeyOf(r) == <<r.ip, r.port>>

Has(tbl, k) == \E r \in tbl : Matches(r, k)

Row(tbl, k) == CHOOSE r \in tbl : Matches(r, k)

\* COALESCE(x, y): the first argument that is not NULL.
Coalesce(x, y) == IF x # NULL THEN x ELSE y

\* The CASE of ON CONFLICT DO UPDATE SET source.
ConflictSourceOverwrite(existing, excluded) == excluded

ConflictSource(existing, excluded) ==
    CASE excluded = "favorite" -> "favorite"
      [] existing = "favorite" -> "favorite"
      [] OTHER -> excluded

\* The row INSERT INTO servers (ip, port, source, trusted, important,
\* last_seen, website) creates: the other columns take their defaults.
NewRow(id, k, source, trusted, important, website, t) ==
    [id |-> id, ip |-> k[1], port |-> k[2],
     name |-> NULL, info |-> NULL, news |-> NULL,
     players |-> NULL, max_players |-> NULL, icon |-> NULL,
     website |-> website, source |-> source,
     trusted |-> trusted, important |-> important,
     last_seen |-> Some(t), last_queried |-> NULL,
     query_failures |-> 0, added_date |-> t]

\* What ON CONFLICT(ip, port) DO UPDATE SET does to the conflicting row.
ConflictRowKeepFlags(r, source, trusted, important, website, t) ==
    [r EXCEPT !.source = ConflictSource(r.source, source),
              !.last_seen = Some(t),
              !.website = Coalesce(website, r.website)]

ConflictRow(r, source, trusted, important, website, t) ==
    [r EXCEPT !.source = ConflictSource(r.source, source),
              !.trusted = trusted,
              !.important = important,
              !.last_seen = Some(t),
              !.website = Coalesce(website, r.website)]

\* INSERT ... ON CONFLICT(ip, port) DO UPDATE: UNIQUE(ip, port) decides.
SqlUpsertAlwaysInsert(tbl, id, k, source, trusted, important, website, t) ==
    tbl \cup {NewRow(id, k, source, trusted, important, website, t)}

\* INSERT OR REPLACE: the conflicting row is deleted and a new one inserted.
SqlUpsertReplace(tbl, id, k, source, trusted, important, website, t) ==
    { r \in tbl : ~Matches(r, k) }
        \cup {NewRow(id, k, source, trusted, important, website, t)}

SqlUpsert(tbl, id, k, source, trusted, important, website, t) ==
    IF Has(tbl, k)
    THEN { IF Matches(r, k)
           THEN ConflictRow(r, source, trusted, important, website, t)
           ELSE r : r \in tbl }
    ELSE tbl \cup {NewRow(id, k, source, trusted, important, website, t)}

\* UPDATE servers SET name = ?, ..., query_failures = 0 WHERE ip = ? AND port = ?
SqlUpdateInfoKeepFailures(tbl, k, s, t) ==
    { IF Matches(r, k)
      THEN [r EXCEPT !.name = Some(s.name), !.info = Some(s.info),
                     !.news = Some(s.news), !.players = Some(s.players),
                     !.max_players = Some(s.max_players),
                     !.icon = Some(s.icon),
                     !.last_queried = Some(t)]
      ELSE r : r \in tbl }

\* INSERT OR REPLACE in place of UPDATE: a key without a row gets one.
SqlUpdateInfoInsertMissing(tbl, k, s, t) ==
    LET missing == IF Has(tbl, k) THEN {}
                   ELSE {NewRow(Cardinality(tbl) + 1, k, "dynamic", FALSE,
                                FALSE, NULL, t)}
    IN { IF Matches(r, k)
         THEN [r EXCEPT !.name = Some(s.name), !.info = Some(s.info),
                        !.news = Some(s.news), !.players = Some(s.players),
                        !.max_players = Some(s.max_players),
                        !.icon = Some(s.icon),
                        !.last_queried = Some(t), !.query_failures = 0]
         ELSE r : r \in tbl \cup missing }

SqlUpdateInfo(tbl, k, s, t) ==
    { IF Matches(r, k)
      THEN [r EXCEPT !.name = Some(s.name), !.info = Some(s.info),
                     !.news = Some(s.news), !.players = Some(s.players),
                     !.max_players = Some(s.max_players),
                     !.icon = Some(s.icon),
                     !.last_queried = Some(t), !.query_failures = 0]
      ELSE r : r \in tbl }

\* UPDATE servers SET query_failures = query_failures + 1, last_queried = ?
SqlMarkFailureClearInfo(tbl, k, t) ==
    { IF Matches(r, k)
      THEN [r EXCEPT !.query_failures = @ + 1, !.last_queried = Some(t),
                     !.name = NULL]
      ELSE r : r \in tbl }

SqlMarkFailureSetOne(tbl, k, t) ==
    { IF Matches(r, k)
      THEN [r EXCEPT !.query_failures = 1, !.last_queried = Some(t)]
      ELSE r : r \in tbl }

SqlMarkFailure(tbl, k, t) ==
    { IF Matches(r, k)
      THEN [r EXCEPT !.query_failures = @ + 1, !.last_queried = Some(t)]
      ELSE r : r \in tbl }

\* DELETE FROM servers WHERE ip = ? AND port = ?
SqlDelete(tbl, k) == { r \in tbl : ~Matches(r, k) }

\* The rows DELETE ... WHERE source = 'dynamic' AND query_failures >= ? hits.
CleanupVictimsAnySource(tbl, n) == { r \in tbl : r.query_failures >= n }

CleanupVictims(tbl, n) ==
    { r \in tbl : r.source = "dynamic" /\ r.query_failures >= n }

\* UPDATE servers SET source = 'favorite' | 'manual' ...
SqlSetFavoriteAnySource(tbl, k, is_favorite) ==
    { IF Matches(r, k)
      THEN [r EXCEPT !.source = IF is_favorite THEN "favorite" ELSE "manual"]
      ELSE r : r \in tbl }

SqlSetFavorite(tbl, k, is_favorite) ==
    { IF Matches(r, k) /\ (is_favorite \/ r.source = "favorite")
      THEN [r EXCEPT !.source = IF is_favorite THEN "favorite" ELSE "manual"]
      ELSE r : r \in tbl }

\* ---------------------------------------------------- ServerManager's methods
\* Each method opens a connection, runs one statement and commits: d is the
\* database before the call, the result the database after the commit.

\* add_server: AUTOINCREMENT takes the next id from sqlite_sequence, and the
\* statement advances sqlite_sequence on a conflict as well as on an insert.
DbAddServerAsManual(d, k, source, trusted, important, website, t) ==
    [servers |-> SqlUpsert(d.servers, d.seq + 1, k, "manual", trusted,
                           important, website, t),
     seq |-> d.seq + 1]

DbAddServer(d, k, source, trusted, important, website, t) ==
    [servers |-> SqlUpsert(d.servers, d.seq + 1, k, source, trusted,
                           important, website, t),
     seq |-> d.seq + 1]

DbUpdateServerInfoSkipped(d, k, s, t) == d

DbUpdateServerInfo(d, k, s, t) ==
    [d EXCEPT !.servers = SqlUpdateInfo(@, k, s, t)]

DbMarkQueryFailure(d, k, t) ==
    [d EXCEPT !.servers = SqlMarkFailure(@, k, t)]

DbRemoveServer(d, k) == [d EXCEPT !.servers = SqlDelete(@, k)]

DbCleanupFailedServers(d, n) ==
    [d EXCEPT !.servers = @ \ CleanupVictims(@, n)]

DbSetFavorite(d, k, is_favorite) ==
    [d EXCEPT !.servers = SqlSetFavorite(@, k, is_favorite)]

\* get_server: the row as a dict, or None.
GetServerNone(d, k) == NULL

get_server(d, k) == IF Has(d.servers, k) THEN Some(Row(d.servers, k)) ELSE NULL

\* ------------------------------------------------------------------ history

\* origin[k]: "none" with no row; "manual" for a row inserted with source
\* manual and since then neither marked favorite nor added again as dynamic;
\* "manual_dynamic" once a successful validation has added such a row again
\* (with source dynamic); "other" for every other row.
HistAddServer(h, d, k, source) ==
    IF ~Has(d.servers, k)
    THEN [fails |-> [h.fails EXCEPT ![k] = 0],
          origin |-> [h.origin EXCEPT
                        ![k] = IF source = "manual" THEN "manual" ELSE "other"]]
    ELSE [h EXCEPT !.origin[k] = IF source = "manual" THEN @ ELSE "other"]

HistValidated(h, d, k) ==
    IF ~Has(d.servers, k)
    THEN [fails |-> [h.fails EXCEPT ![k] = 0],
          origin |-> [h.origin EXCEPT ![k] = "other"]]
    ELSE [fails |-> [h.fails EXCEPT ![k] = 0],
          origin |-> [h.origin EXCEPT
                        ![k] = IF @ = "manual" THEN "manual_dynamic" ELSE @]]

HistUpdateServerInfo(h, d, k) ==
    IF Has(d.servers, k) THEN [h EXCEPT !.fails[k] = 0] ELSE h

HistMarkQueryFailure(h, d, k) ==
    IF Has(d.servers, k) THEN [h EXCEPT !.fails[k] = @ + 1] ELSE h

HistRemoveServer(h, k) ==
    [h EXCEPT !.fails[k] = 0, !.origin[k] = "none"]

\* A row cleanup deleted keeps its failure count and a manual origin: nobody
\* removed it by hand. Both start afresh when the key is inserted again.
HistCleanup(h, removed) ==
    [h EXCEPT !.origin =
        [k \in Keys |-> IF k \in removed /\ @[k] = "other"
                        THEN "none" ELSE @[k]]]

HistSetFavorite(h, d, k, is_favorite) ==
    IF is_favorite /\ Has(d.servers, k)
    THEN [h EXCEPT !.origin[k] = "other"] ELSE h

\* -------------------------------------------------------------------- steps

EmptyDb == [servers |-> {}, seq |-> 0]

IdleThread == [pc |-> "idle", call |-> NULL, pending |-> NULL, ret |-> NULL]

InitHistory ==
    /\ last = [op |-> "init", ret |-> RetNone]
    /\ hist = [fails |-> [k \in Keys |-> 0],
               origin |-> [k \in Keys |-> "none"]]

InitThreads ==
    /\ threads = [w \in Threads |-> IdleThread]
    /\ lock = NULL

\* No refresh and no revalidation under way, no callback triggered.
IdleRefresh ==
    [pc |-> "idle", max_concurrent |-> 0, servers |-> <<>>, futures |-> {},
     new_count |-> 0, failed_count |-> 0]

IdleReval ==
    [pc |-> "idle", servers |-> <<>>, i |-> 0, info |-> NULL,
     success_count |-> 0, failed_count |-> 0, log |-> <<>>]

\* __init__: self._refresh_thread = None, self._stop_refresh = False.
IdleAuto ==
    [stop_refresh |-> FALSE, thread |-> "none", pc |-> "none", ticks |-> 0,
     cycles |-> 0, ran |-> FALSE, alive |-> 0, asked |-> "none"]

IdleSession ==
    [pc |-> "idle", inbox |-> <<>>, greeting |-> NULL, reply |-> NULL,
     flags |-> 0, version |-> 0, netver |-> <<>>, log |-> <<>>,
     ret |-> RetNone]

NoLookup == [op |-> "none", arg |-> NULL, ret |-> <<>>]

InitService ==
    /\ auto = IdleAuto
    /\ session = IdleSession
    /\ lookup = NoLookup

InitDiscovery ==
    /\ events = <<>>
    /\ refresh = IdleRefresh
    /\ jobs = <<>>
    /\ reval = IdleReval
    /\ fault = NULL
    /\ InitService

Init ==
    /\ db = EmptyDb
    /\ prior = EmptyDb
    /\ InitHistory
    /\ InitThreads
    /\ InitDiscovery

add_server(k, source, trusted, important, website, t) ==
    /\ db.seq < MaxId
    /\ db' = DbAddServer(db, k, source, trusted, important, website, t)
    /\ hist' = HistAddServer(hist, db, k, source)
    /\ last' = [op |-> "add_server", ret |-> RetId(Row(db'.servers, k).id)]
    /\ UNCHANGED <<threadVars, discoveryVars>>

update_server_info(k, s, t) ==
    /\ db' = DbUpdateServerInfo(db, k, s, t)
    /\ hist' = HistUpdateServerInfo(hist, db, k)
    /\ last' = [op |-> "update_server_info", ret |-> RetNone]
    /\ UNCHANGED <<threadVars, discoveryVars>>

mark_query_failure(k, t) ==
    /\ Has(db.servers, k) => Row(db.servers, k).query_failures < MaxFailures
    /\ db' = DbMarkQueryFailure(db, k, t)
    /\ hist' = HistMarkQueryFailure(hist, db, k)
    /\ last' = [op |-> "mark_query_failure", ret |-> RetNone]
    /\ UNCHANGED <<threadVars, discoveryVars>>

remove_server(k) ==
    /\ db' = DbRemoveServer(db, k)
    /\ hist' = HistRemoveServer(hist, k)
    /\ last' = [op |-> "remove_server", ret |-> RetNone]
    /\ UNCHANGED <<threadVars, discoveryVars>>

\* The rows RETURNING ip, port gives back come in no stated order: a set.
cleanup_failed_servers(n) ==
    LET removed == { KeyOf(r) : r \in CleanupVictims(db.servers, n) } IN
    /\ db' = DbCleanupFailedServers(db, n)
    /\ hist' = HistCleanup(hist, removed)
    /\ last' = [op |-> "cleanup_failed_servers", ret |-> RetKeys(removed)]
    /\ UNCHANGED <<threadVars, discoveryVars>>

set_favorite(k, is_favorite) ==
    /\ db' = DbSetFavorite(db, k, is_favorite)
    /\ hist' = HistSetFavorite(hist, db, k, is_favorite)
    /\ last' = [op |-> "set_favorite", ret |-> RetNone]
    /\ UNCHANGED <<threadVars, discoveryVars>>

\* ------------------------------------------------------ DynamicServerLoader

\* validate_and_add_server, run with no other call in between: outcome is
\* what query_function did. On an exception the row is looked up and, if
\* there, its failure is marked.
validate_and_add_server(k, trusted, important, website, outcome, t) ==
    IF outcome # NULL
    THEN /\ db.seq < MaxId
         /\ db' = DbUpdateServerInfo(
                      DbAddServer(db, k, "dynamic", trusted, important,
                                  website, t),
                      k, outcome[1], t)
         /\ hist' = HistValidated(hist, db, k)
         /\ last' = [op |-> "validate_and_add_server",
                     ret |-> RetBool(TRUE)]
         /\ UNCHANGED <<threadVars, discoveryVars>>
    ELSE /\ Has(db.servers, k)
              => Row(db.servers, k).query_failures < MaxFailures
         /\ db' = IF get_server(db, k) # NULL
                  THEN DbMarkQueryFailure(db, k, t) ELSE db
         /\ hist' = HistMarkQueryFailure(hist, db, k)
         /\ last' = [op |-> "validate_and_add_server",
                     ret |-> RetBool(FALSE)]
         /\ UNCHANGED <<threadVars, discoveryVars>>

\* revalidate_all_servers, run with no other call in between: every row of
\* get_all_servers() is queried in turn, outcomes[k] is what the query of
\* k's row did, and each row is updated or marked before the next query.
RECURSIVE RevalidateRows(_, _, _, _)
RevalidateRows(d, todo, outcomes, t) ==
    IF todo = {} THEN d
    ELSE LET k == CHOOSE x \in todo : TRUE
             d1 == IF outcomes[k] # NULL
                   THEN DbUpdateServerInfo(d, k, outcomes[k][1], t)
                   ELSE DbMarkQueryFailure(d, k, t)
         IN RevalidateRows(d1, todo \ {k}, outcomes, t)

revalidate_all_servers(outcomes, t) ==
    LET rows == { KeyOf(r) : r \in db.servers }
        ok == { k \in rows : outcomes[k] # NULL }
    IN
    /\ \A k \in rows \ ok :
          Row(db.servers, k).query_failures < MaxFailures
    /\ db' = RevalidateRows(db, rows, outcomes, t)
    /\ hist' = [hist EXCEPT !.fails =
                   [k \in Keys |-> IF k \in ok THEN 0
                                   ELSE IF k \in rows THEN @[k] + 1
                                   ELSE @[k]]]
    /\ last' = [op |-> "revalidate_all_servers",
                ret |-> RetCounts(Cardinality(ok), Cardinality(rows \ ok))]
    /\ UNCHANGED <<threadVars, discoveryVars>>

Next ==
    \/ \E k \in Keys, src \in Sources, f \in DefaultFlags,
          w \in DefaultWebsites, t \in Times :
            add_server(k, src, f[1], f[2], w, t)
    \/ \E k \in Keys, s \in Snapshots, t \in Times :
          update_server_info(k, s, t)
    \/ \E k \in Keys, t \in Times : mark_query_failure(k, t)
    \/ \E k \in Keys : remove_server(k)
    \/ \E n \in Thresholds : cleanup_failed_servers(n)
    \/ \E k \in Keys, b \in BOOLEAN : set_favorite(k, b)
    \/ \E k \in Keys, f \in DefaultFlags, w \in DefaultWebsites,
          o \in QueryOutcomes, t \in Times :
            validate_and_add_server(k, f[1], f[2], w, o, t)
    \/ \E o \in [Keys -> QueryOutcomes], t \in Times :
          revalidate_all_servers(o, t)

Spec == Init /\ [][Next]_vars

\* ------------------------------------------- add_server on several threads
\* A thread's add_server call opens its own connection and takes two steps:
\*   execute: conn.execute(INSERT ... ON CONFLICT ... RETURNING id) begins the
\*            implicit transaction, takes sqlite's write lock on the file and
\*            applies the statement inside the transaction; while another
\*            connection holds the lock the thread waits in sqlite's busy
\*            handler (a transaction here is one statement and its commit,
\*            far below the 5 s busy timeout of sqlite3.connect's default);
\*   commit:  conn.commit() makes the transaction's changes the database and
\*            gives the lock back.

\* the (trusted, important) pairs and the databases SpecUpsert starts from.
CallFlags == Flags \ DefaultFlags

Calls ==
    [key : Keys, source : Sources, flags : CallFlags, website : Websites,
     t : Times]

ApplyCall(d, c) ==
    DbAddServer(d, c.key, c.source, c.flags[1], c.flags[2], c.website, c.t)

\* Empty, or one row for ("a", 1) that an earlier add_server call left.
PriorDbs ==
    {EmptyDb} \cup
    { DbAddServer(EmptyDb, <<"a", 1>>, src, FALSE, FALSE, w, 1) :
        src \in Sources, w \in {NULL, Some("w0")} }

InitUpsert ==
    /\ prior \in PriorDbs
    /\ db = prior
    /\ InitHistory
    /\ InitThreads
    /\ InitDiscovery

\* sqlite grants the write lock to one connection at a time.
WriteLockIgnored(lk, w) == TRUE

WriteLockFree(lk, w) == lk = NULL

add_server_call(w, c) ==
    /\ threads[w].pc = "idle"
    /\ threads' = [threads EXCEPT ![w] = [@ EXCEPT !.pc = "execute",
                                                   !.call = Some(c)]]
    /\ UNCHANGED <<db, last, hist, lock, prior, discoveryVars>>

add_server_execute(w) ==
    /\ threads[w].pc = "execute"
    /\ WriteLockFree(lock, w)
    /\ lock' = Some(w)
    /\ LET c == threads[w].call[1]
           d == ApplyCall(db, c)
       IN threads' = [threads EXCEPT ![w] =
                        [@ EXCEPT !.pc = "commit", !.pending = Some(d),
                                  !.ret = Some(Row(d.servers, c.key).id)]]
    /\ UNCHANGED <<db, last, hist, prior, discoveryVars>>

add_server_commit(w) ==
    /\ threads[w].pc = "commit"
    /\ db' = threads[w].pending[1]
    /\ lock' = NULL
    /\ threads' = [threads EXCEPT ![w] = [@ EXCEPT !.pc = "done",
                                                   !.pending = NULL]]
    /\ UNCHANGED <<last, hist, prior, discoveryVars>>

NextUpsert ==
    \/ \E w \in Threads, c \in Calls : add_server_call(w, c)
    \/ \E w \in Threads : add_server_execute(w)
    \/ \E w \in Threads : add_server_commit(w)

SpecUpsert == InitUpsert /\ [][NextUpsert]_vars

\* ------------------------------------------------ refresh_dynamic_servers
\* One call of refresh_dynamic_servers on its thread, and the
\* validate_and_add_server calls of its ThreadPoolExecutor. Every store call
\* is one statement in one transaction, applied in one step (SpecUpsert is
\* where the steps of a transaction are told apart).

\* the longest list the feed returns.
MaxCandidates == 2

\* A feed entry after server.get("trusted", False), server.get("important",
\* False) and server.get("website"): the entry of ("a", 1) sets trusted and a
\* website, the others leave all three out.
FeedEntry(k) ==
    IF k = <<"a", 1>>
    THEN [ip |-> k[1], port |-> k[2], trusted |-> TRUE, important |-> FALSE,
          website |-> Some("w1")]
    ELSE [ip |-> k[1], port |-> k[2], trusted |-> FALSE, important |-> FALSE,
          website |-> NULL]

Feeds ==
    UNION { [1 .. n -> { FeedEntry(k) : k \in Keys }] : n \in 0 .. MaxCandidates }

\* What fetch_server_list meets: the parsed list; a requests.RequestException
\* (connection, timeout, HTTP status, and the JSON error of a requests that
\* derives it from RequestException); or another exception, which its except
\* clause does not catch (the ValueError of response.json() in a requests
\* that raises it bare, the TypeError of len(data) for a body like null).
FetchOutcomes ==
    { <<"ok", f>> : f \in Feeds } \cup {<<"RequestException">>, <<"Exception">>}

\* max_concurrent, the size of the pool.
PoolSizes == 1 .. MaxCandidates

\* What the query of a candidate does: raises (NULL) or returns the dict.
RefreshOutcomes == { o \in QueryOutcomes : o = NULL \/ o[1].name = "Test" }

\* The database a refresh starts from: empty, or one row for ("a", 1) added
\* by hand, or the same marked favorite, with one failure marked.
RefreshPriors ==
    {EmptyDb} \cup
    { DbMarkQueryFailure(
          DbAddServer(EmptyDb, <<"a", 1>>, src, FALSE, FALSE, Some("w0"), 1),
          <<"a", 1>>, 1) : src \in {"manual", "favorite"} }

StoreMethods ==
    {"add_server", "update_server_info", "get_server", "mark_query_failure"}

\* The store call that fails: none, or one method in the first call.
FaultPlans == {NULL} \cup { Some(<<1, m>>) : m \in StoreMethods }

Faulty(i, m) == fault = Some(<<i, m>>)

InitRefresh ==
    /\ db \in RefreshPriors
    /\ prior = db
    /\ InitHistory
    /\ InitThreads
    /\ events = <<>>
    /\ refresh = IdleRefresh
    /\ jobs = <<>>
    /\ reval = IdleReval
    /\ fault \in FaultPlans
    /\ InitService

\* _trigger_callback(event, *args): the call is recorded.
TriggerCallback(evs, event) == Append(evs, event)

\* Whether _trigger_callback(name, ...) made for the i-th call (0: made by
\* refresh_dynamic_servers itself) raises. The callback raises when the fault
\* plan says so; _trigger_callback calls it inside try / except Exception and
\* prints the exception, so _trigger_callback itself returns.
TriggerCallbackUncaught(i, name) == Faulty(i, name)

TriggerCallbackRaises(i, name) == FALSE

refreshFrame == <<last, hist, threadVars, reval, fault, serviceVars>>

\* refresh_dynamic_servers is called: on_fetch_start.
refresh_dynamic_servers(max_concurrent) ==
    /\ refresh.pc = "idle"
    /\ IF TriggerCallbackRaises(0, "on_fetch_start")
       THEN /\ refresh' = [refresh EXCEPT !.pc = "returned",
                                          !.max_concurrent = max_concurrent]
            /\ events' = TriggerCallback(
                             TriggerCallback(events, <<"on_fetch_start">>),
                             <<"on_error", "str(e)">>)
       ELSE /\ refresh' = [refresh EXCEPT !.pc = "fetch",
                                          !.max_concurrent = max_concurrent]
            /\ events' = TriggerCallback(events, <<"on_fetch_start">>)
    /\ UNCHANGED <<db, jobs, refreshFrame>>

\* servers = self.fetch_server_list(), and `if not servers`. A
\* RequestException is reported by fetch_server_list, which returns []; any
\* other exception leaves through refresh_dynamic_servers' own except clause.
fetch_server_list(o) ==
    /\ refresh.pc = "fetch"
    /\ CASE o[1] = "ok" /\ o[2] # <<>> ->
              /\ refresh' = [refresh EXCEPT !.pc = "submit",
                                            !.servers = o[2]]
              /\ UNCHANGED events
         [] o[1] = "ok" /\ o[2] = <<>> ->
              /\ refresh' = [refresh EXCEPT !.pc = "returned"]
              /\ events' = TriggerCallback(events,
                               <<"on_fetch_complete", 0, 0, 0>>)
         [] o[1] = "RequestException" ->
              /\ refresh' = [refresh EXCEPT
                               !.pc = IF TriggerCallbackRaises(0, "on_error")
                                      THEN "raised" ELSE "returned"]
              /\ events' = TriggerCallback(
                               TriggerCallback(events,
                                   <<"on_error", "Failed to fetch server list">>),
                               <<"on_fetch_complete", 0, 0, 0>>)
         [] o[1] = "Exception" ->
              /\ refresh' = [refresh EXCEPT
                               !.pc = IF TriggerCallbackRaises(0, "on_error")
                                      THEN "raised" ELSE "returned"]
              /\ events' = TriggerCallback(events, <<"on_error", "str(e)">>)
    /\ UNCHANGED <<db, jobs, refreshFrame>>

\* for server in servers: executor.submit(...). Submitting only queues the
\* calls; the pool starts them in the order submitted.
refresh_submit ==
    /\ refresh.pc = "submit"
    /\ jobs' = [i \in 1 .. Len(refresh.servers) |->
                  [pc |-> "queued", server |-> refresh.servers[i],
                   info |-> NULL, exc |-> NULL, result |-> NULL]]
    /\ refresh' = [refresh EXCEPT !.pc = "as_completed",
                                  !.futures = 1 .. Len(refresh.servers)]
    /\ UNCHANGED <<db, events, refreshFrame>>

\* success = future.result(): True, False, or the exception the call raised,
\* which the loop's except clause counts as a failure.
FutureResultAnything(i) == jobs[i].result # <<"raised">>

FutureResult(i) == jobs[i].result = RetBool(TRUE)

\* for future in as_completed(futures): a future that is done is counted.
refresh_as_completed(i) ==
    /\ refresh.pc = "as_completed"
    /\ i \in refresh.futures
    /\ jobs[i].pc = "done"
    /\ refresh' =
         [refresh EXCEPT
            !.futures = @ \ {i},
            !.new_count = IF FutureResult(i) THEN @ + 1 ELSE @,
            !.failed_count = IF FutureResult(i) THEN @ ELSE @ + 1]
    /\ UNCHANGED <<db, events, jobs, refreshFrame>>

\* on_fetch_complete(total, new_count, failed_count), and the return.
refresh_fetch_complete ==
    /\ refresh.pc = "as_completed"
    /\ refresh.futures = {}
    /\ refresh' = [refresh EXCEPT !.pc = "returned"]
    /\ LET evs == TriggerCallback(events,
                      <<"on_fetch_complete", Len(refresh.servers),
                        refresh.new_count, refresh.failed_count>>)
       IN events' = IF TriggerCallbackRaises(0, "on_fetch_complete")
                    THEN TriggerCallback(evs, <<"on_error", "str(e)">>)
                    ELSE evs
    /\ UNCHANGED <<db, jobs, refreshFrame>>

\* ---- validate_and_add_server, step by step, as the pool's threads run it

JobKey(i) == <<jobs[i].server.ip, jobs[i].server.port>>

\* Only the calls waiting for their query's answer are counted.
InFlightQuerying == { i \in DOMAIN jobs : jobs[i].pc = "query" }

InFlight == { i \in DOMAIN jobs : jobs[i].pc \notin {"queued", "done"} }

\* A thread of the pool takes the oldest queued call; the pool has
\* max_concurrent threads.
validate_call(i) ==
    /\ i \in DOMAIN jobs
    /\ jobs[i].pc = "queued"
    /\ \A j \in 1 .. (i - 1) : jobs[j].pc # "queued"
    /\ Cardinality(InFlight) < refresh.max_concurrent
    /\ jobs' = [jobs EXCEPT ![i].pc = "query"]
    /\ UNCHANGED <<db, events, refresh, refreshFrame>>

\* server_info = self.query_function(ip, int(port), timeout=timeout)
validate_query(i, o) ==
    /\ i \in DOMAIN jobs
    /\ jobs[i].pc = "query"
    /\ jobs' = IF o # NULL
               THEN [jobs EXCEPT ![i].pc = "add_server", ![i].info = o]
               ELSE [jobs EXCEPT ![i].pc = "get_server",
                                 ![i].exc = Some("query")]
    /\ UNCHANGED <<db, events, refresh, refreshFrame>>

\* self.server_manager.add_server(ip, int(port), source="dynamic", ...): an
\* exception of the store lands in the same except clause as one of the query.
validate_add_server(i, t) ==
    /\ i \in DOMAIN jobs
    /\ jobs[i].pc = "add_server"
    /\ IF Faulty(i, "add_server")
       THEN /\ jobs' = [jobs EXCEPT ![i].pc = "get_server",
                                    ![i].exc = Some("sqlite3.Error")]
            /\ UNCHANGED db
       ELSE /\ db' = DbAddServer(db, JobKey(i), "dynamic",
                                 jobs[i].server.trusted,
                                 jobs[i].server.important,
                                 jobs[i].server.website, t)
            /\ jobs' = [jobs EXCEPT ![i].pc = "update_server_info"]
    /\ UNCHANGED <<events, refresh, refreshFrame>>

\* self.server_manager.update_server_info(ip, int(port), server_info)
validate_update_server_info(i, t) ==
    /\ i \in DOMAIN jobs
    /\ jobs[i].pc = "update_server_info"
    /\ IF Faulty(i, "update_server_info")
       THEN /\ jobs' = [jobs EXCEPT ![i].pc = "get_server",
                                    ![i].exc = Some("sqlite3.Error")]
            /\ UNCHANGED db
       ELSE /\ db' = DbUpdateServerInfo(db, JobKey(i), jobs[i].info[1], t)
            /\ jobs' = [jobs EXCEPT ![i].pc = "on_server_validated"]
    /\ UNCHANGED <<events, refresh, refreshFrame>>

\* self._trigger_callback("on_server_validated", ip, port, server_info);
\* return True
validate_on_server_validated(i) ==
    /\ i \in DOMAIN jobs
    /\ jobs[i].pc = "on_server_validated"
    /\ events' = TriggerCallback(events,
                     <<"on_server_validated", JobKey(i), jobs[i].info[1]>>)
    /\ jobs' = IF TriggerCallbackRaises(i, "on_server_validated")
               THEN [jobs EXCEPT ![i].pc = "get_server",
                                 ![i].exc = Some("callback")]
               ELSE [jobs EXCEPT ![i].pc = "done",
                                 ![i].result = RetBool(TRUE)]
    /\ UNCHANGED <<db, refresh, refreshFrame>>

\* except Exception as e: existing = self.server_manager.get_server(...). An
\* exception raised here leaves validate_and_add_server.
validate_get_server(i) ==
    /\ i \in DOMAIN jobs
    /\ jobs[i].pc = "get_server"
    /\ jobs' =
         IF Faulty(i, "get_server")
         THEN [jobs EXCEPT ![i].pc = "done", ![i].result = <<"raised">>]
         ELSE IF get_server(db, JobKey(i)) # NULL
         THEN [jobs EXCEPT ![i].pc = "mark_query_failure"]
         ELSE [jobs EXCEPT ![i].pc = "on_server_failed"]
    /\ UNCHANGED <<db, events, refresh, refreshFrame>>

\* if existing: self.server_manager.mark_query_failure(ip, int(port))
validate_mark_query_failure(i, t) ==
    /\ i \in DOMAIN jobs
    /\ jobs[i].pc = "mark_query_failure"
    /\ IF Faulty(i, "mark_query_failure")
       THEN /\ jobs' = [jobs EXCEPT ![i].pc = "done",
                                    ![i].result = <<"raised">>]
            /\ UNCHANGED db
       ELSE /\ db' = DbMarkQueryFailure(db, JobKey(i), t)
            /\ jobs' = [jobs EXCEPT ![i].pc = "on_server_failed"]
    /\ UNCHANGED <<events, refresh, refreshFrame>>

\* self._trigger_callback("on_server_failed", ip, port, str(e)); return False
validate_on_server_failed(i) ==
    /\ i \in DOMAIN jobs
    /\ jobs[i].pc = "on_server_failed"
    /\ events' = TriggerCallback(events,
                     <<"on_server_failed", JobKey(i), jobs[i].exc[1]>>)
    /\ jobs' = IF TriggerCallbackRaises(i, "on_server_failed")
               THEN [jobs EXCEPT ![i].pc = "done",
                                 ![i].result = <<"raised">>]
               ELSE [jobs EXCEPT ![i].pc = "done",
                                 ![i].result = RetBool(FALSE)]
    /\ UNCHANGED <<db, refresh, refreshFrame>>

NextRefresh ==
    \/ \E n \in PoolSizes : refresh_dynamic_servers(n)
    \/ \E o \in FetchOutcomes : fetch_server_list(o)
    \/ refresh_submit
    \/ \E i \in 1 .. MaxCandidates : validate_call(i)
    \/ \E i \in 1 .. MaxCandidates, o \in RefreshOutcomes : validate_query(i, o)
    \/ \E i \in 1 .. MaxCandidates, t \in Times : validate_add_server(i, t)
    \/ \E i \in 1 .. MaxCandidates, t \in Times :
          validate_update_server_info(i, t)
    \/ \E i \in 1 .. MaxCandidates : validate_on_server_validated(i)
    \/ \E i \in 1 .. MaxCandidates : validate_get_server(i)
    \/ \E i \in 1 .. MaxCandidates, t \in Times :
          validate_mark_query_failure(i, t)
    \/ \E i \in 1 .. MaxCandidates : validate_on_server_failed(i)
    \/ \E i \in 1 .. MaxCandidates : refresh_as_completed(i)
    \/ refresh_fetch_complete

SpecRefresh == InitRefresh /\ [][NextRefresh]_vars

\* ------------------------------------------------- revalidate_all_servers
\* One call of revalidate_all_servers, step by step, while another thread
\* (the UI) may call remove_server.

\* ORDER BY important DESC, trusted DESC, players DESC: r1 has to come
\* before r2. A NULL players sorts below every number.
PlayersOf(r) == IF r.players = NULL THEN -1 ELSE r.players[1]

OrderedBeforeTrustedFirst(r1, r2) ==
    \/ r1.trusted /\ ~r2.trusted
    \/ r1.trusted = r2.trusted /\ r1.important /\ ~r2.important
    \/ r1.important = r2.important /\ r1.trusted = r2.trusted
         /\ PlayersOf(r1) > PlayersOf(r2)

OrderedBefore(r1, r2) ==
    \/ r1.important /\ ~r2.important
    \/ r1.important = r2.important /\ r1.trusted /\ ~r2.trusted
    \/ r1.important = r2.important /\ r1.trusted = r2.trusted
         /\ PlayersOf(r1) > PlayersOf(r2)

Sorted(rows) ==
    \A i, j \in DOMAIN rows : i < j => ~OrderedBefore(rows[j], rows[i])

\* get_all_servers(): every row once, in the order of the ORDER BY; rows
\* that tie come in an order SQL does not state.
GetDynamicServers(d) ==
    LET tbl == { r \in d.servers : r.source = "dynamic" } IN
    { rows \in [1 .. Cardinality(tbl) -> tbl] :
        (\A r \in tbl : \E i \in DOMAIN rows : rows[i] = r) /\ Sorted(rows) }

get_all_servers(d) ==
    { rows \in [1 .. Cardinality(d.servers) -> d.servers] :
        (\A r \in d.servers : \E i \in DOMAIN rows : rows[i] = r)
          /\ Sorted(rows) }

\* The tables a revalidation starts from: none, one or two rows, the
\* second trusted or not, queried (with players) or not.
RevalPriors ==
    LET one == { DbAddServer(EmptyDb, <<"a", 1>>, src, FALSE, FALSE, NULL, 1) :
                   src \in {"manual", "favorite"} }
        two == { DbAddServer(d, <<"a", 2>>, "dynamic", tr, FALSE, NULL, 1) :
                   d \in one, tr \in BOOLEAN }
        queried == { DbUpdateServerInfo(d, <<"a", 2>>, sn, 1) :
                       d \in two, sn \in { x \in Snapshots : x.name = "Test" } }
    IN {EmptyDb} \cup one \cup two \cup queried

RevalFaultPlans ==
    {NULL} \cup
    { Some(<<1, m>>) : m \in {"update_server_info", "mark_query_failure"} }

InitRevalidate ==
    /\ db \in RevalPriors
    /\ prior = db
    /\ InitHistory
    /\ InitThreads
    /\ events = <<>>
    /\ refresh = IdleRefresh
    /\ jobs = <<>>
    /\ reval = IdleReval
    /\ fault \in RevalFaultPlans
    /\ InitService

revalFrame ==
    <<last, hist, threads, lock, events, refresh, jobs, fault, serviceVars>>

RevalKey == KeyOf(reval.servers[reval.i])

\* The loop goes on to the next row, or the call returns the two counts.
RevalAdvanceUntilFailure(rv) ==
    [rv EXCEPT !.i = @ + 1, !.info = NULL,
               !.pc = IF rv.i < Len(rv.servers) /\ rv.failed_count = 0
                      THEN "query" ELSE "returned"]

RevalAdvance(rv) ==
    [rv EXCEPT !.i = @ + 1, !.info = NULL,
               !.pc = IF rv.i < Len(rv.servers) THEN "query" ELSE "returned"]

\* servers = self.server_manager.get_all_servers(); prior keeps the database
\* the list was read from.
revalidate_call(servers) ==
    /\ reval.pc = "idle"
    /\ servers \in get_all_servers(db)
    /\ reval' = [reval EXCEPT !.servers = servers, !.i = 1,
                              !.pc = IF servers = <<>> THEN "returned"
                                     ELSE "query"]
    /\ prior' = db
    /\ UNCHANGED <<db, revalFrame>>

\* server_info = self.query_function(server["ip"], server["port"], ...)
revalidate_query(o) ==
    /\ reval.pc = "query"
    /\ reval' = [reval EXCEPT
                   !.log = Append(@, <<"query", RevalKey>>),
                   !.info = o,
                   !.pc = IF o # NULL THEN "update_server_info"
                          ELSE "mark_query_failure"]
    /\ UNCHANGED <<db, prior, revalFrame>>

\* self.server_manager.update_server_info(...); success_count += 1. An
\* exception of the store lands in the except clause of the query.
revalidate_update_server_info(t) ==
    /\ reval.pc = "update_server_info"
    /\ IF Faulty(reval.i, "update_server_info")
       THEN /\ reval' = [reval EXCEPT !.pc = "mark_query_failure"]
            /\ UNCHANGED db
       ELSE /\ db' = DbUpdateServerInfo(db, RevalKey, reval.info[1], t)
            /\ reval' = RevalAdvance(
                 [reval EXCEPT
                    !.success_count = @ + 1,
                    !.log = Append(@, <<"update_server_info", RevalKey>>)])
    /\ UNCHANGED <<prior, revalFrame>>

\* except: self.server_manager.mark_query_failure(...); failed_count += 1.
\* An exception raised here leaves revalidate_all_servers.
revalidate_mark_query_failure(t) ==
    /\ reval.pc = "mark_query_failure"
    /\ IF Faulty(reval.i, "mark_query_failure")
       THEN /\ reval' = [reval EXCEPT !.pc = "raised"]
            /\ UNCHANGED db
       ELSE /\ db' = DbMarkQueryFailure(db, RevalKey, t)
            /\ reval' = RevalAdvance(
                 [reval EXCEPT
                    !.failed_count = @ + 1,
                    !.log = Append(@, <<"mark_query_failure", RevalKey>>)])
    /\ UNCHANGED <<prior, revalFrame>>

NextRevalidate ==
    \/ \E servers \in get_all_servers(db) : revalidate_call(servers)
    \/ \E o \in RefreshOutcomes : revalidate_query(o)
    \/ \E t \in Times : revalidate_update_server_info(t)
    \/ \E t \in Times : revalidate_mark_query_failure(t)
    \/ \E k \in Keys : reval.pc # "idle" /\ remove_server(k)

SpecRevalidate == InitRevalidate /\ [][NextRevalidate]_vars

\* A run of either batch: one refresh, or one revalidation, on a table of
\* no row, one row or two rows, with no store call raising.
BatchPriors ==
    RefreshPriors \cup
    { d \in RevalPriors :
        Cardinality(d.servers) = 2 /\ \A r \in d.servers : r.players = NULL }

InitBatch ==
    /\ db \in BatchPriors
    /\ prior = db
    /\ InitHistory
    /\ InitThreads
    /\ events = <<>>
    /\ refresh = IdleRefresh
    /\ jobs = <<>>
    /\ reval = IdleReval
    /\ fault = NULL
    /\ InitService

NextBatch ==
    \/ reval.pc = "idle" /\ NextRefresh
    \/ refresh.pc = "idle" /\ NextRevalidate

SpecBatch == InitBatch /\ [][NextBatch]_vars

\* ------------------------------------------------------------------- claims

IsFavorite(tbl, k) == Has(tbl, k) /\ Row(tbl, k).source = "favorite"

\* C1: a row whose source is favorite is still in the table and still
\* favorite after every step (add_server with any source, a validation,
\* update_server_info, mark_query_failure, a revalidation, a cleanup with
\* any threshold), unless the step is remove_server or set_favorite(False)
\* on its key.
C1_FavoriteSticky ==
    [][\A k \in Keys :
         (/\ IsFavorite(db.servers, k)
          /\ ~remove_server(k)
          /\ ~set_favorite(k, FALSE))
         => IsFavorite(db'.servers, k)]_vars

\* C1 witness: a successful validation (add_server with source dynamic, then
\* update_server_info) has just run on the only row, and it is favorite.
C1_Witness ==
    /\ last.op = "validate_and_add_server"
    /\ last.ret = RetBool(TRUE)
    /\ Cardinality(db.servers) = 1
    /\ \A r \in db.servers : r.source = "favorite" /\ r.name # NULL

\* C2: no two rows of the table share (ip, port).
C2_UniqueKey ==
    \A r1, r2 \in db.servers : KeyOf(r1) = KeyOf(r2) => r1 = r2

\* C2 witness: add_server has just run on a pair that had a row (it returns
\* the id 1 of that row, with sqlite_sequence at 2) and the table holds one
\* row.
C2_Witness ==
    /\ last.op = "add_server"
    /\ last.ret = RetId(1)
    /\ db.seq = 2
    /\ Cardinality(db.servers) = 1

\* C3: cleanup_failed_servers(n) deletes exactly the rows that are dynamic
\* with query_failures >= n, leaves every other row as it was, and returns
\* the (ip, port) of the rows it deleted.
C3_EvictExactly ==
    [][\A n \in Thresholds :
         cleanup_failed_servers(n) =>
           /\ db'.servers \subseteq db.servers
           /\ \A r \in db.servers :
                 r \notin db'.servers
                   <=> (r.source = "dynamic" /\ r.query_failures >= n)
           /\ last'.ret =
                RetKeys({ KeyOf(r) : r \in db.servers \ db'.servers })]_vars

\* C3 witness: a cleanup has just deleted a row and left one that is not
\* dynamic although its counter is at the largest threshold.
C3_Witness ==
    /\ last.op = "cleanup_failed_servers"
    /\ last.ret # RetKeys({})
    /\ \E r \in db.servers :
          r.source # "dynamic" /\ r.query_failures = MaxFailures

\* C4 as claimed: a cleanup (threshold 1 or more) never deletes the row of a
\* key that was inserted with source manual and since then has seen only
\* validations, revalidations, failure marks, updates and cleanups.
C4_ManualNeverEvicted ==
    [][\A n \in Thresholds :
         (n >= 1 /\ cleanup_failed_servers(n)) =>
           \A k \in Keys :
             (hist.origin[k] \in {"manual", "manual_dynamic"}
                /\ Has(db.servers, k))
               => Has(db'.servers, k)]_vars

\* C4 amended: the row of a key that was inserted with source manual, never
\* marked favorite and never added again with source dynamic (as a successful
\* validation of its key does) is in the table with source manual, until
\* remove_server takes it out.
C4_ManualKeptWhileManual ==
    \A k \in Keys :
      hist.origin[k] = "manual"
        => Has(db.servers, k) /\ Row(db.servers, k).source = "manual"

\* C4 witness: a cleanup has just run and left such a row, whose counter is
\* at the largest threshold.
C4_Witness ==
    /\ last.op = "cleanup_failed_servers"
    /\ \E k \in Keys :
          /\ hist.origin[k] = "manual"
          /\ Has(db.servers, k)
          /\ Row(db.servers, k).query_failures = MaxFailures

\* C5: when cleanup_failed_servers(n) runs, a dynamic row that has had
\* exactly n calls of mark_query_failure since its counter was 0 (inserted,
\* or updated by update_server_info) is deleted, one that has had fewer is
\* left as it was, and no manual or favorite row is deleted.
C5_EvictAfterNFailures ==
    [][\A n \in Thresholds :
         cleanup_failed_servers(n) =>
           \A r \in db.servers :
             /\ (r.source = "dynamic" /\ hist.fails[KeyOf(r)] = n)
                  => ~Has(db'.servers, KeyOf(r))
             /\ (r.source = "dynamic" /\ hist.fails[KeyOf(r)] < n)
                  => r \in db'.servers
             /\ r.source # "dynamic" => r \in db'.servers]_vars

\* C5 witness: a cleanup has just deleted the row of a key that had
\* MaxFailures failures marked in a row, and left the other row, which is
\* not dynamic.
C5_Witness ==
    /\ last.op = "cleanup_failed_servers"
    /\ \E k \in Keys :
          /\ last.ret = RetKeys({k})
          /\ hist.fails[k] = MaxFailures
          /\ \E r \in db.servers : r.source # "dynamic"

\* C10: update_server_info on a key that has a row sets query_failures to 0
\* whatever it was, sets name, info, news, players, max_players and icon to
\* the snapshot's and last_queried to now, and leaves the row's other
\* columns and the other rows alone; so every row's query_failures is the
\* number of failures marked on it since it was inserted or last updated.
C10_SuccessResets ==
    /\ [](\A r \in db.servers : r.query_failures = hist.fails[KeyOf(r)])
    /\ [][\A k \in Keys, s \in Snapshots, t \in Times :
            (update_server_info(k, s, t) /\ Has(db.servers, k)) =>
              LET old == Row(db.servers, k) IN
              /\ db'.servers =
                   (db.servers \ {old}) \cup
                   {[old EXCEPT !.name = Some(s.name), !.info = Some(s.info),
                                !.news = Some(s.news),
                                !.players = Some(s.players),
                                !.max_players = Some(s.max_players),
                                !.icon = Some(s.icon),
                                !.last_queried = Some(t),
                                !.query_failures = 0]}
              /\ Row(db'.servers, k).query_failures = 0]_vars

\* C10 witness: update_server_info has just run and the only row carries the
\* second snapshot with its counter at 0, beside a history of no failure.
C10_Witness ==
    /\ last.op = "update_server_info"
    /\ Cardinality(db.servers) = 1
    /\ \A r \in db.servers :
          /\ r.name = Some("Other")
          /\ r.players = Some(0)
          /\ r.query_failures = 0

\* C11: mark_query_failure on a key that has a row adds exactly 1 to the
\* row's query_failures, sets its last_queried to now and leaves its other
\* columns and the other rows as they were; on a key without a row it leaves
\* the table as it was (no row is created).
C11_FailureMarkOnly ==
    [][\A k \in Keys, t \in Times :
         mark_query_failure(k, t) =>
           IF Has(db.servers, k)
           THEN LET old == Row(db.servers, k) IN
                db'.servers =
                  (db.servers \ {old}) \cup
                  {[old EXCEPT !.query_failures = old.query_failures + 1,
                               !.last_queried = Some(t)]}
           ELSE db' = db]_vars

\* C11 witness: mark_query_failure has just run, and a favorite row that
\* carries a snapshot has its counter at MaxFailures beside a second row
\* whose counter is 0.
C11_Witness ==
    /\ last.op = "mark_query_failure"
    /\ \E r1, r2 \in db.servers :
          /\ r1.source = "favorite" /\ r1.name = Some("Test")
          /\ r1.query_failures = MaxFailures
          /\ r2.query_failures = 0 /\ r2.last_queried = NULL

\* -------------------------------------------------- claims under SpecUpsert

AllDone == \A w \in Threads : threads[w].pc = "done"

CallOf(w) == threads[w].call[1]

\* The databases the threads' calls give when run one after the other on the
\* prior database, in either order.
SerialResults ==
    { ApplyCall(ApplyCall(prior, CallOf(o[1])), CallOf(o[2])) :
        o \in { p \in Threads \X Threads : p[1] # p[2] } }

SameKeyCalls == \A w1, w2 \in Threads : CallOf(w1).key = CallOf(w2).key

DistinctKeyCalls ==
    \A w1, w2 \in Threads : w1 # w2 => CallOf(w1).key # CallOf(w2).key

\* C6: when the threads' add_server calls on one (ip, port) have all
\* returned, the database is what the calls give in some serial order; the
\* pair has exactly one row; the row is favorite if the prior row was or a
\* call's source is; and where one call passed a non-empty website and every
\* other call passed None, the row has that website.
C6_SameKeyAtomic ==
    (AllDone /\ SameKeyCalls) =>
      LET k == CallOf(CHOOSE w \in Threads : TRUE).key IN
      /\ db \in SerialResults
      /\ Cardinality({ r \in db.servers : Matches(r, k) }) = 1
      /\ (IsFavorite(prior.servers, k)
            \/ \E w \in Threads : CallOf(w).source = "favorite")
           => IsFavorite(db.servers, k)
      /\ \A w \in Threads :
           (/\ CallOf(w).website \notin {NULL, Some("")}
            /\ \A w2 \in Threads \ {w} : CallOf(w2).website = NULL)
           => Row(db.servers, k).website = CallOf(w).website

\* C6 witness: both calls on a pair whose prior row was favorite and had a
\* website have returned, neither with source favorite, one with a website
\* and one with None; the row is favorite and has the call's website.
C6_Witness ==
    /\ AllDone /\ SameKeyCalls
    /\ \A w \in Threads : CallOf(w).source # "favorite"
    /\ \E w1, w2 \in Threads :
          /\ CallOf(w1).website = Some("w1")
          /\ CallOf(w2).website = NULL
    /\ \E r \in prior.servers : r.source = "favorite" /\ r.website = Some("w0")
    /\ \E r \in db.servers : r.source = "favorite" /\ r.website = Some("w1")

\* C7: when the threads' add_server calls on distinct pairs have all
\* returned, the table holds the prior rows' pairs and one row per call;
\* every row of a call has the call's trusted and important, and a row that
\* the call inserted has the call's source and website as well.
C7_DistinctKeys ==
    (AllDone /\ DistinctKeyCalls) =>
      /\ { KeyOf(r) : r \in db.servers } =
            { KeyOf(r) : r \in prior.servers }
              \cup { CallOf(w).key : w \in Threads }
      /\ Cardinality(db.servers) =
            Cardinality({ KeyOf(r) : r \in db.servers })
      /\ prior = EmptyDb => Cardinality(db.servers) = Cardinality(Threads)
      /\ \A w \in Threads :
           LET c == CallOf(w)
               r == Row(db.servers, c.key)
           IN /\ r.trusted = c.flags[1]
              /\ r.important = c.flags[2]
              /\ ~Has(prior.servers, c.key) =>
                    r.source = c.source /\ r.website = c.website

\* C7 witness: two calls on the two pairs of an empty database have returned
\* and the table holds two rows with different sources, flags and websites.
C7_Witness ==
    /\ AllDone /\ DistinctKeyCalls
    /\ prior = EmptyDb
    /\ Cardinality(db.servers) = 2
    /\ \E r1, r2 \in db.servers :
          /\ r1.source = "manual" /\ r2.source = "dynamic"
          /\ r1.trusted /\ ~r2.trusted
          /\ r1.website = Some("w1") /\ r2.website = NULL

\* C8: the commit of add_server(k, source, trusted, important, ...) leaves,
\* where k had a row, that row with source favorite if its source or the
\* call's is favorite and the call's source otherwise, and with the call's
\* trusted and important; where k had none, one more row with the call's
\* source, trusted and important.
C8_UpsertMerge ==
    [][\A w \in Threads :
         add_server_commit(w) =>
           LET c == CallOf(w)
               new == Row(db'.servers, c.key)
           IN /\ Has(db'.servers, c.key)
              /\ new.trusted = c.flags[1]
              /\ new.important = c.flags[2]
              /\ new.source =
                   IF Has(db.servers, c.key)
                        /\ Row(db.servers, c.key).source = "favorite"
                   THEN "favorite"
                   ELSE c.source
              /\ ~Has(db.servers, c.key) =>
                   Cardinality(db'.servers) = Cardinality(db.servers) + 1]_vars

\* C8 witness: two calls on the pair of a prior manual row have returned, one
\* with source favorite and one with dynamic, with different flags; the row
\* is favorite and has one call's flags.
C8_Witness ==
    /\ AllDone /\ SameKeyCalls
    /\ \E r \in prior.servers : r.source = "manual"
    /\ \E w1, w2 \in Threads :
          /\ CallOf(w1).source = "favorite"
          /\ CallOf(w2).source = "dynamic"
          /\ CallOf(w1).flags # CallOf(w2).flags
          /\ \E r \in db.servers :
                /\ r.source = "favorite"
                /\ <<r.trusted, r.important>> = CallOf(w2).flags

\* a website column that holds no website: NULL or the empty string.
NoWebsite(x) == x \in {NULL, Some("")}

\* C9 as claimed: the commit of add_server on a pair that had a row leaves
\* the row's website as it was (a row without a website still without one)
\* when the call's website is None or the empty string, and sets it to the
\* call's website otherwise.
C9_WebsiteKeptUnlessNonEmpty ==
    [][\A w \in Threads :
         (add_server_commit(w) /\ Has(db.servers, CallOf(w).key)) =>
           LET c == CallOf(w)
               old == Row(db.servers, c.key).website
               new == Row(db'.servers, c.key).website
           IN IF NoWebsite(c.website)
              THEN new = old \/ (NoWebsite(old) /\ NoWebsite(new))
              ELSE new = c.website]_vars

\* ------------------------------------------------- claims under SpecRefresh

\* the other calls of the refresh are for other keys.
KeyOnce(i) == \A j \in DOMAIN jobs : j # i => JobKey(j) # JobKey(i)

\* no store call of the i-th validate_and_add_server raises.
NoFault(i) == \A m \in StoreMethods : ~Faulty(i, m)

\* how many times the callback of `name` was triggered for key k.
Triggered(name, k) ==
    Cardinality({ e \in DOMAIN events :
                    events[e][1] = name /\ events[e][2] = k })

\* C12: a validate_and_add_server call whose query raised (no store call of
\* it raising, no other call of the refresh on its key) has returned False
\* and triggered on_server_failed once and on_server_validated never; a key
\* that had no row has none, and with it the only call the database is as it
\* was; a row the key had has query_failures one higher, last_queried set and
\* every other column (source, trusted, important, the info) as before.
C12_QueryFailed ==
    \A i \in DOMAIN jobs :
      (/\ jobs[i].pc = "done"
       /\ jobs[i].exc = Some("query")
       /\ NoFault(i) /\ KeyOnce(i))
      => LET k == JobKey(i) IN
         /\ jobs[i].result = RetBool(FALSE)
         /\ Triggered("on_server_failed", k) = 1
         /\ Triggered("on_server_validated", k) = 0
         /\ IF Has(prior.servers, k)
            THEN /\ Has(db.servers, k)
                 /\ \E t \in Times :
                      Row(db.servers, k) =
                        [Row(prior.servers, k) EXCEPT
                           !.query_failures = @ + 1,
                           !.last_queried = Some(t)]
            ELSE ~Has(db.servers, k)
         /\ (Len(jobs) = 1 /\ ~Has(prior.servers, k)) => db = prior

\* C12 witness: both calls of a refresh are done; the query of ("a", 1),
\* which had a favorite row with one failure, raised and the row now has
\* two; the query of ("a", 2), which had no row, raised and there is none.
C12_Witness ==
    /\ Len(jobs) = 2
    /\ \A i \in DOMAIN jobs :
          jobs[i].pc = "done" /\ jobs[i].exc = Some("query")
    /\ JobKey(1) = <<"a", 1>> /\ JobKey(2) = <<"a", 2>>
    /\ \E r \in db.servers : r.source = "favorite" /\ r.query_failures = 2
    /\ ~Has(db.servers, <<"a", 2>>)
    /\ Triggered("on_server_failed", <<"a", 2>>) = 1

\* C13: a validate_and_add_server call whose query returned (no store call
\* of it raising, no other call of the refresh on its key) has the key's row
\* in the table before update_server_info runs, with the snapshot not yet
\* in it; once done it has returned True and triggered on_server_validated
\* once and on_server_failed never, and the row has query_failures 0, the
\* snapshot's name, info, news, players, max_players and icon, the entry's
\* trusted and important, and source dynamic, or favorite if it was.
C13_QuerySucceeded ==
    \A i \in DOMAIN jobs :
      (jobs[i].info # NULL /\ NoFault(i) /\ KeyOnce(i))
      => LET k == JobKey(i)
             s == jobs[i].info[1]
             was_favorite == IsFavorite(prior.servers, k)
         IN
         /\ jobs[i].pc = "update_server_info" =>
              /\ Has(db.servers, k)
              /\ Row(db.servers, k).name = NULL
              /\ Row(db.servers, k).source =
                   IF was_favorite THEN "favorite" ELSE "dynamic"
         /\ jobs[i].pc = "done" =>
              /\ jobs[i].result = RetBool(TRUE)
              /\ Triggered("on_server_validated", k) = 1
              /\ Triggered("on_server_failed", k) = 0
              /\ Has(db.servers, k)
              /\ LET r == Row(db.servers, k) IN
                 /\ r.query_failures = 0
                 /\ r.name = Some(s.name) /\ r.info = Some(s.info)
                 /\ r.news = Some(s.news) /\ r.players = Some(s.players)
                 /\ r.max_players = Some(s.max_players)
                 /\ r.icon = Some(s.icon)
                 /\ r.trusted = jobs[i].server.trusted
                 /\ r.important = jobs[i].server.important
                 /\ r.source = IF was_favorite THEN "favorite" ELSE "dynamic"

\* C13 witness: the call for ("a", 1), whose row was favorite with one
\* failure, is done with True, and the row is favorite, trusted, with no
\* failure and the snapshot's name.
C13_Witness ==
    /\ Len(jobs) >= 1
    /\ JobKey(1) = <<"a", 1>>
    /\ jobs[1].pc = "done" /\ jobs[1].result = RetBool(TRUE)
    /\ IsFavorite(prior.servers, <<"a", 1>>)
    /\ \E r \in db.servers :
          /\ r.source = "favorite" /\ r.trusted
          /\ r.query_failures = 0 /\ r.name = Some("Test")

Returned == refresh.pc = "returned"

KeysOf(tbl) == { KeyOf(r) : r \in tbl }

\* C14: a refresh over a non-empty list ends, in whatever order its calls
\* finished, with on_fetch_complete(total, succeeded, failed) as the last
\* callback: total the length of the list, succeeded the calls that returned
\* True, failed the others, succeeded + failed = total.
C14_CompletionCounts ==
    (Returned /\ jobs # <<>>) =>
      LET succeeded == { i \in DOMAIN jobs : jobs[i].result = RetBool(TRUE) }
          failed == DOMAIN jobs \ succeeded
      IN /\ events[Len(events)] =
              <<"on_fetch_complete", Len(refresh.servers),
                Cardinality(succeeded), Cardinality(failed)>>
         /\ Len(jobs) = Len(refresh.servers)
         /\ refresh.new_count + refresh.failed_count = Len(refresh.servers)

\* C14 witness: a refresh of two entries has returned (2, 1, 1); the second
\* call, which returned True, triggered its callback before the first.
C14_Witness ==
    /\ Returned /\ Len(jobs) = 2
    /\ jobs[1].result = RetBool(FALSE) /\ jobs[2].result = RetBool(TRUE)
    /\ events[2][1] = "on_server_validated"
    /\ events[3][1] = "on_server_failed"
    /\ events[Len(events)] = <<"on_fetch_complete", 2, 1, 1>>

\* C15: when a refresh in which no store call raised has returned, the keys
\* that have a row now and had none before are the keys of the entries that
\* had no row and whose query returned; their rows have source dynamic; the
\* rows there before are still there; an entry whose query raised and that
\* had no row has added none.
C15_NewRecords ==
    (Returned /\ fault = NULL) =>
      LET ok == { JobKey(i) : i \in { j \in DOMAIN jobs : jobs[j].info # NULL } }
      IN /\ KeysOf(db.servers) \ KeysOf(prior.servers)
              = ok \ KeysOf(prior.servers)
         /\ KeysOf(prior.servers) \subseteq KeysOf(db.servers)
         /\ \A r \in db.servers :
               KeyOf(r) \notin KeysOf(prior.servers) => r.source = "dynamic"

\* C15 witness: a refresh of two entries on an empty table has returned
\* (2, 1, 1): the query of one returned and the query of the other raised,
\* and the table holds one row, dynamic.
C15_Witness ==
    /\ Returned /\ fault = NULL /\ prior = EmptyDb
    /\ Len(jobs) = 2 /\ JobKey(1) # JobKey(2)
    /\ jobs[1].info = NULL /\ jobs[2].info # NULL
    /\ events[Len(events)] = <<"on_fetch_complete", 2, 1, 1>>
    /\ Cardinality(db.servers) = 1
    /\ \A r \in db.servers : r.source = "dynamic" /\ KeyOf(r) = JobKey(2)

\* C16 as claimed: a refresh whose fetch failed (on_error was triggered and
\* no call was submitted) has triggered on_fetch_start, on_error and
\* on_fetch_complete(0, 0, 0), in this order and nothing else, and has left
\* the database as it was.
C16_FetchFailureCompletes ==
    (Returned /\ jobs = <<>>
       /\ \E e \in DOMAIN events : events[e][1] = "on_error")
    => /\ Len(events) = 3
       /\ events[1] = <<"on_fetch_start">>
       /\ events[2][1] = "on_error"
       /\ events[3] = <<"on_fetch_complete", 0, 0, 0>>
       /\ db = prior

\* C17 as claimed: a refresh that has returned has triggered on_fetch_start
\* once, as the first callback, and on_fetch_complete once, as the last, with
\* every on_server_validated and on_server_failed in between.
C17_StartAndCompleteOnce ==
    Returned =>
      /\ Len(events) >= 2
      /\ events[1] = <<"on_fetch_start">>
      /\ events[Len(events)][1] = "on_fetch_complete"
      /\ \A e \in 2 .. (Len(events) - 1) :
            events[e][1] \in {"on_server_validated", "on_server_failed",
                              "on_error"}

\* C19 as claimed: a validate_and_add_server call in which a store call
\* raised ends by raising: it returns nothing, triggers no on_server_failed,
\* and marks no failure on the key's row.
C19_StorageFaultPropagates ==
    \A i \in DOMAIN jobs :
      (jobs[i].pc = "done" /\ ~NoFault(i)
         /\ (jobs[i].exc = Some("sqlite3.Error")
               \/ jobs[i].result = <<"raised">>))
      => /\ jobs[i].result = <<"raised">>
         /\ Triggered("on_server_failed", JobKey(i)) = 0
         /\ (KeyOnce(i) /\ Has(db.servers, JobKey(i))) =>
               Row(db.servers, JobKey(i)).query_failures =
                 IF Has(prior.servers, JobKey(i))
                 THEN Row(prior.servers, JobKey(i)).query_failures
                 ELSE 0

\* --------------------------------------------- claims under SpecRevalidate

LogOf(kind) == { j \in DOMAIN reval.log : reval.log[j][1] = kind }

\* C20: revalidate_all_servers (no store call raising) works on the list of
\* all rows, of every source, that the table held when it was called, each
\* once, in the order of get_all_servers; its queries and store calls
\* alternate, row by row in that order, the store call of a row (an
\* update_server_info or a mark_query_failure) before the query of the
\* next; it returns (s, f), s the rows updated, f the rows marked,
\* s + f the length of the list.
C20_RevalidateSequential ==
    (reval.pc # "idle" /\ fault = NULL) =>
      LET n == Len(reval.servers) IN
      /\ { reval.servers[i] : i \in 1 .. n } = prior.servers
      /\ n = Cardinality(prior.servers)
      /\ Sorted(reval.servers)
      /\ Len(reval.log) <= 2 * n
      /\ \A j \in DOMAIN reval.log :
            /\ reval.log[j][2] = KeyOf(reval.servers[(j + 1) \div 2])
            /\ IF j % 2 = 1
               THEN reval.log[j][1] = "query"
               ELSE reval.log[j][1] \in
                      {"update_server_info", "mark_query_failure"}
      /\ reval.pc # "raised"
      /\ reval.pc = "returned" =>
            /\ Len(reval.log) = 2 * n
            /\ reval.success_count = Cardinality(LogOf("update_server_info"))
            /\ reval.failed_count = Cardinality(LogOf("mark_query_failure"))
            /\ reval.success_count + reval.failed_count = n

\* C20 witness: a revalidation of a manual row and a trusted dynamic row
\* has returned (1, 1): the dynamic row came first in the list and its query
\* raised, the manual row was updated after it; remove_server took a row
\* out meanwhile.
C20_Witness ==
    /\ reval.pc = "returned" /\ fault = NULL
    /\ Len(reval.servers) = 2
    /\ reval.servers[1].source = "dynamic" /\ reval.servers[1].trusted
    /\ reval.servers[2].source = "manual"
    /\ reval.log[2][1] = "mark_query_failure"
    /\ reval.log[4][1] = "update_server_info"
    /\ reval.success_count = 1 /\ reval.failed_count = 1
    /\ Cardinality(db.servers) = 1

\* -------------------------------------------------- claims under SpecBatch

\* C18: a query that raises ends neither batch. A refresh that has returned
\* has run every call to its end: the calls whose query returned have
\* returned True and their keys have a row, the calls whose query raised
\* have returned False with on_server_failed triggered, they are the
\* failed count, and a key that had no row and no query that returned has
\* none. A revalidation (remove_server running beside it or not) returns,
\* with every row of its list queried and then updated or marked, the rows
\* marked being the failed count.
C18_FailureDoesNotAbort ==
    /\ (Returned /\ jobs # <<>>) =>
         /\ \A i \in DOMAIN jobs :
               /\ jobs[i].pc = "done"
               /\ jobs[i].info # NULL =>
                    /\ jobs[i].result = RetBool(TRUE)
                    /\ Triggered("on_server_validated", JobKey(i)) >= 1
                    /\ Has(db.servers, JobKey(i))
               /\ jobs[i].info = NULL =>
                    /\ jobs[i].result = RetBool(FALSE)
                    /\ Triggered("on_server_failed", JobKey(i)) >= 1
         /\ refresh.failed_count =
              Cardinality({ i \in DOMAIN jobs : jobs[i].info = NULL })
         /\ \A k \in Keys :
               (/\ ~Has(prior.servers, k)
                /\ \A i \in DOMAIN jobs : JobKey(i) = k => jobs[i].info = NULL)
               => ~Has(db.servers, k)
    /\ reval.pc # "raised"
    /\ reval.pc = "returned" =>
         /\ Len(reval.log) = 2 * Len(reval.servers)
         /\ \A i \in DOMAIN reval.servers :
               /\ reval.log[2 * i - 1] = <<"query", KeyOf(reval.servers[i])>>
               /\ reval.log[2 * i][2] = KeyOf(reval.servers[i])
         /\ reval.failed_count = Cardinality(LogOf("mark_query_failure"))
         /\ reval.success_count + reval.failed_count = Len(reval.servers)

\* C18 witness: a refresh with a pool of one thread has returned (2, 1, 1):
\* the query of the first entry raised, and the second entry was validated
\* after it.
C18_Witness ==
    /\ Returned /\ Len(jobs) = 2 /\ refresh.max_concurrent = 1
    /\ jobs[1].info = NULL /\ jobs[2].info # NULL
    /\ events[2][1] = "on_server_failed"
    /\ events[3][1] = "on_server_validated"
    /\ Has(db.servers, JobKey(2))
    /\ refresh.new_count = 1 /\ refresh.failed_count = 1

\* ---------------------------------------------------------------------------
\* start_auto_refresh, stop_auto_refresh and the refresh_loop thread

\* Times refresh_loop may enter its body.
MaxCycles == 2

\* range(interval_minutes * 60): iterations of the sleep loop, one second each.
MaxTicks == 2

\* refresh_dynamic_servers(validation_timeout=...) leaves max_concurrent at
\* its default.
DefaultMaxConcurrent == 10

\* What fetch_server_list meets in a cycle of the loop: a feed of at most one
\* candidate, or one of the exceptions.
LoopFetchOutcomes == { o \in FetchOutcomes : o[1] = "ok" => Len(o[2]) <= 1 }

InitAuto ==
    /\ db = EmptyDb
    /\ prior = db
    /\ InitHistory
    /\ InitThreads
    /\ InitDiscovery

autoFrame ==
    <<storeVars, threadVars, events, refresh, jobs, reval, fault, session,
      lookup>>

\* The statement a new refresh_loop thread starts at.
LoopEntryAsleep == "for"

LoopEntry == "while"

\* while not self._stop_refresh
WhileNotStop(a) == ~a.stop_refresh

\* if self._stop_refresh: break
BreakOnStop(a) == a.stop_refresh

\* if self._refresh_thread and self._refresh_thread.is_alive(): return
ThreadIsAliveNever(a) == FALSE

ThreadIsAlive(a) == a.thread = "alive"

\* What auto.asked becomes when start_auto_refresh is called.
AskedStart(a) == IF a.asked \in {"stop", "restart"} THEN "restart" ELSE "start"

\* start_auto_refresh: nothing while the thread is alive; otherwise the flag
\* is cleared and a new thread is started on refresh_loop.
start_auto_refresh ==
    /\ auto' = IF ThreadIsAlive(auto)
               THEN [auto EXCEPT !.asked = AskedStart(auto)]
               ELSE [auto EXCEPT !.stop_refresh = FALSE, !.thread = "alive",
                                 !.pc = LoopEntry, !.ticks = 0,
                                 !.ran = FALSE, !.alive = @ + 1,
                                 !.asked = AskedStart(auto)]
    /\ UNCHANGED autoFrame

\* stop_auto_refresh: if self._refresh_thread: self._stop_refresh = True
stop_auto_refresh ==
    /\ auto' = IF auto.thread # "none"
               THEN [auto EXCEPT !.stop_refresh = TRUE, !.asked = "stop"]
               ELSE [auto EXCEPT !.asked = "stop"]
    /\ UNCHANGED autoFrame

\* The test of the while loop: the body is entered, or the thread ends.
refresh_loop_while ==
    /\ auto.thread = "alive"
    /\ auto.pc = "while"
    /\ IF WhileNotStop(auto)
       THEN /\ auto.cycles < MaxCycles
            /\ auto' = [auto EXCEPT !.pc = "body", !.cycles = @ + 1,
                                    !.ran = TRUE]
       ELSE auto' = [auto EXCEPT !.pc = "none", !.thread = "finished",
                                 !.alive = @ - 1]
    /\ UNCHANGED autoFrame

\* self.refresh_dynamic_servers(validation_timeout=validation_timeout)
refresh_loop_refresh ==
    /\ auto.thread = "alive"
    /\ auto.pc = "body"
    /\ refresh_dynamic_servers(DefaultMaxConcurrent)

\* refresh_dynamic_servers has returned: for _ in range(interval_minutes * 60)
refresh_loop_returned ==
    /\ auto.thread = "alive"
    /\ auto.pc = "body"
    /\ refresh.pc = "returned"
    /\ refresh' = IdleRefresh
    /\ jobs' = <<>>
    /\ auto' = [auto EXCEPT !.pc = "for", !.ticks = 0]
    /\ UNCHANGED <<storeVars, threadVars, events, reval, fault, session,
                   lookup>>

\* One iteration of the for loop up to its sleep: the range is used up, or
\* the flag is set and the loop is left, or the thread goes to sleep.
refresh_loop_for ==
    /\ auto.thread = "alive"
    /\ auto.pc = "for"
    /\ auto' = IF auto.ticks >= MaxTicks \/ BreakOnStop(auto)
               THEN [auto EXCEPT !.pc = "while"]
               ELSE [auto EXCEPT !.pc = "sleep"]
    /\ UNCHANGED autoFrame

\* time.sleep(1) returns.
refresh_loop_sleep ==
    /\ auto.thread = "alive"
    /\ auto.pc = "sleep"
    /\ auto' = [auto EXCEPT !.pc = "for", !.ticks = @ + 1]
    /\ UNCHANGED autoFrame

\* The steps of the loop's thread and of the pool of its refresh.
LoopStep ==
    \/ refresh_loop_while
    \/ refresh_loop_refresh
    \/ \E o \in LoopFetchOutcomes : fetch_server_list(o)
    \/ refresh_submit
    \/ validate_call(1)
    \/ \E o \in RefreshOutcomes : validate_query(1, o)
    \/ \E t \in Times : validate_add_server(1, t)
    \/ \E t \in Times : validate_update_server_info(1, t)
    \/ validate_on_server_validated(1)
    \/ validate_get_server(1)
    \/ \E t \in Times : validate_mark_query_failure(1, t)
    \/ validate_on_server_failed(1)
    \/ refresh_as_completed(1)
    \/ refresh_fetch_complete
    \/ refresh_loop_returned
    \/ refresh_loop_for
    \/ refresh_loop_sleep

NextAuto ==
    \/ start_auto_refresh
    \/ stop_auto_refresh
    \/ LoopStep

\* The threads are scheduled, time.sleep returns, and the fetch and every
\* query end within their timeouts: a step of the loop that can be taken is
\* taken.
SpecAuto == InitAuto /\ [][NextAuto]_vars /\ WF_vars(LoopStep)

\* ---------------------------------------------------------------------------
\* Claims on the auto-refresh loop (SpecAuto)

\* Calls of refresh_dynamic_servers so far: each triggers on_fetch_start.
NumStarts ==
    Cardinality({ i \in DOMAIN events : events[i][1] = "on_fetch_start" })

\* A call of refresh_dynamic_servers is under way.
RefreshInFlight == refresh.pc \notin {"idle", "returned"}

StopSignalled == auto.thread = "alive" /\ auto.stop_refresh

\* Part of C21: once stop_auto_refresh has set the flag, the flag stays set as
\* long as the thread lives, the loop's body is not entered again, and no new
\* one-second sleep is begun.
C21_NoFurtherCycle ==
    [][StopSignalled =>
         /\ auto'.thread = "alive" => auto'.stop_refresh
         /\ auto'.cycles = auto.cycles
         /\ auto'.pc = "sleep" => auto.pc = "sleep"]_vars

\* Part of C21: once the flag is set the thread ends.
C21_ThreadExits == StopSignalled ~> (auto.thread = "finished")

\* Part of C21: the refresh under way when the flag is set goes on to its
\* return; no step of it looks at the flag.
C21_InFlightReturns ==
    (StopSignalled /\ RefreshInFlight) ~> (refresh.pc = "returned")

\* C21: after stop_auto_refresh the loop begins no further refresh cycle and
\* its thread ends, within one polling step of the sleep; and a refresh that
\* is under way when stop is called is not aborted: it runs until
\* on_fetch_complete has been triggered.
C21_StopEndsLoopNotRefresh ==
    /\ C21_NoFurtherCycle
    /\ C21_ThreadExits
    /\ (StopSignalled /\ RefreshInFlight) ~>
         (/\ refresh.pc = "returned"
          /\ events[Len(events)][1] = "on_fetch_complete")

\* C22: the first thing a thread of the loop does is a refresh, before any
\* sleep; and as long as the flag is not set, each refresh is followed, after
\* the interval, by another one (up to MaxCycles of them).
C22_RefreshRecurs ==
    /\ [](auto.pc \in {"for", "sleep"} => auto.ran)
    /\ \A n \in 0 .. (MaxCycles - 1) :
         (auto.thread = "alive" /\ NumStarts = n) ~>
            (NumStarts > n \/ auto.stop_refresh)

\* A thread that was never told to stop has refreshed, slept the whole
\* interval and started its next refresh.
C22_Witness ==
    /\ auto.thread = "alive" /\ ~auto.stop_refresh
    /\ auto.ran /\ auto.ticks = MaxTicks
    /\ auto.pc = "body" /\ refresh.pc = "fetch"
    /\ NumStarts = 2

\* ---------------------------------------------------------------------------
\* set_favorite on rows of every source

\* The tables set_favorite meets: none, one or two rows; the row of ("a", 1)
\* of any source, trusted and with a website, queried or not.
FavoritePriors ==
    LET first == { DbAddServer(EmptyDb, <<"a", 1>>, src, TRUE, FALSE,
                               Some("w1"), 1) : src \in Sources }
        queried == { DbMarkQueryFailure(
                         DbUpdateServerInfo(d, <<"a", 1>>, sn, 1),
                         <<"a", 1>>, 1) :
                       d \in first, sn \in { x \in Snapshots : x.name = "Test" } }
        one == {EmptyDb} \cup first \cup queried
        two == { DbAddServer(d, <<"a", 2>>, src, FALSE, FALSE, NULL, 1) :
                   d \in one, src \in Sources }
    IN one \cup two

InitFavorite ==
    /\ db \in FavoritePriors
    /\ prior = db
    /\ InitHistory
    /\ InitThreads
    /\ InitDiscovery

\* The calls that never insert a row.
NextFavorite ==
    \/ \E k \in Keys, b \in BOOLEAN : set_favorite(k, b)
    \/ \E k \in Keys, s \in Snapshots, t \in Times :
          update_server_info(k, s, t)
    \/ \E k \in Keys, t \in Times : mark_query_failure(k, t)
    \/ \E k \in Keys : remove_server(k)

SpecFavorite == InitFavorite /\ [][NextFavorite]_vars

SourceFilters ==
    {NULL, Some("")} \cup { Some(s) : s \in Sources \cup {"other"} }

\* query arguments of search_servers.
Queries == {"", "a", "es", "ES", "h", "T", "%", "_"}

\* `if source_filter:` is false for None and for the empty string.
Truthy(x) == x # NULL /\ x # Some("")

\* The rows of tbl, each once, in the order of the ORDER BY; rows that tie
\* come in an order SQL does not state.
OrderedRows(tbl) ==
    { rows \in [1 .. Cardinality(tbl) -> tbl] :
        (\A r \in tbl : \E i \in DOMAIN rows : rows[i] = r) /\ Sorted(rows) }

\* SELECT * FROM servers [WHERE source = ?] ORDER BY ...
get_all_servers_of(d, source_filter) ==
    IF Truthy(source_filter)
    THEN OrderedRows({ r \in d.servers : r.source = source_filter[1] })
    ELSE get_all_servers(d)

\* The characters of the strings in use.
Chars(s) ==
    CASE s = "" -> <<>>
      [] s = "a" -> <<"a">>
      [] s = "b" -> <<"b">>
      [] s = "h" -> <<"h">>
      [] s = "T" -> <<"T">>
      [] s = "%" -> <<"%">>
      [] s = "_" -> <<"_">>
      [] s = "es" -> <<"e", "s">>
      [] s = "ES" -> <<"E", "S">>
      [] s = "Hi" -> <<"H", "i">>
      [] s = "Test" -> <<"T", "e", "s", "t">>
      [] s = "Other" -> <<"O", "t", "h", "e", "r">>

\* LIKE compares ASCII letters without regard to case (no PRAGMA
\* case_sensitive_like is issued).
Fold(c) ==
    CASE c = "E" -> "e"
      [] c = "H" -> "h"
      [] c = "O" -> "o"
      [] c = "S" -> "s"
      [] c = "T" -> "t"
      [] OTHER -> c

\* text LIKE pattern: % matches any run of characters, _ any one character.
RECURSIVE Like(_, _)
Like(text, pattern) ==
    IF pattern = <<>> THEN text = <<>>
    ELSE IF Head(pattern) = "%"
    THEN Like(text, Tail(pattern))
           \/ (text # <<>> /\ Like(Tail(text), pattern))
    ELSE /\ text # <<>>
         /\ Head(pattern) = "_" \/ Fold(Head(pattern)) = Fold(Head(text))
         /\ Like(Tail(text), Tail(pattern))

\* column LIKE ?: a NULL column matches nothing.
SqlLike(column, pattern) ==
    column # NULL /\ Like(Chars(column[1]), pattern)

\* search_pattern = f"%{query}%"
SearchPattern(query) == <<"%">> \o Chars(query) \o <<"%">>

\* WHERE name LIKE ? OR info LIKE ? OR ip LIKE ?, in the order of the list.
search_servers(d, query) ==
    OrderedRows({ r \in d.servers :
                    \/ SqlLike(r.name, SearchPattern(query))
                    \/ SqlLike(r.info, SearchPattern(query))
                    \/ SqlLike(Some(r.ip), SearchPattern(query)) })

\* The tables read: a row of ("b", 1) never queried, rows of ("a", 1) and
\* ("a", 2) of two sources each, with each pair of flags, queried or not.
LookupPriors ==
    LET Added(ds, k, srcs) ==
            ds \cup { DbAddServer(d, k, src, f[1], f[2], NULL, 1) :
                        d \in ds, src \in srcs, f \in Flags }
        Queried(ds, k) ==
            ds \cup { DbUpdateServerInfo(d, k, s, 1) :
                        d \in ds, s \in Snapshots }
        b1 == Added({EmptyDb}, <<"b", 1>>, {"favorite"})
        a1 == Queried(Added(b1, <<"a", 1>>, {"manual", "dynamic"}),
                      <<"a", 1>>)
    IN Queried(Added(a1, <<"a", 2>>, {"dynamic", "favorite"}), <<"a", 2>>)

InitLookup ==
    /\ db \in LookupPriors
    /\ prior = db
    /\ InitHistory
    /\ InitThreads
    /\ InitDiscovery

lookupFrame ==
    <<storeVars, threadVars, events, refresh, jobs, reval, fault, auto,
      session>>

\* get_all_servers(source_filter) returns the rows as a list of dicts.
get_all_servers_call(source_filter) ==
    /\ \E rows \in get_all_servers_of(db, source_filter) :
          lookup' = [op |-> "get_all_servers", arg |-> source_filter,
                     ret |-> rows]
    /\ UNCHANGED lookupFrame

\* search_servers(query)
search_servers_call(query) ==
    /\ \E rows \in search_servers(db, query) :
          lookup' = [op |-> "search_servers", arg |-> Some(query),
                     ret |-> rows]
    /\ UNCHANGED lookupFrame

NextLookup ==
    \/ \E f \in SourceFilters : get_all_servers_call(f)
    \/ \E q \in Queries : search_servers_call(q)

SpecLookup == InitLookup /\ [][NextLookup]_vars

\* important descending, then trusted descending, then players descending,
\* a row without players after those with: r1 may stand before r2.
ListRank(r) ==
    <<IF r.important THEN 1 ELSE 0, IF r.trusted THEN 1 ELSE 0, PlayersOf(r)>>

RankNotBelow(r1, r2) ==
    LET x == ListRank(r1)
        y == ListRank(r2)
    IN \/ x[1] > y[1]
       \/ x[1] = y[1] /\ x[2] > y[2]
       \/ x[1] = y[1] /\ x[2] = y[2] /\ x[3] >= y[3]

\* rows holds exactly the records of want, each once, in the list's order.
ExactlyInOrder(rows, want) ==
    /\ Len(rows) = Cardinality(want)
    /\ { rows[i] : i \in DOMAIN rows } = want
    /\ \A i, j \in DOMAIN rows : i < j => RankNotBelow(rows[i], rows[j])

\* C24: get_all_servers(source_filter) returns exactly the rows whose source
\* is the filter, or all rows when no filter is given, each once, ordered by
\* important descending, then trusted descending, then players descending.
C24_ListFilteredOrdered ==
    (/\ lookup.op = "get_all_servers"
     /\ lookup.arg \in {NULL} \cup { Some(s) : s \in Sources \cup {"other"} }) =>
        ExactlyInOrder(lookup.ret,
            IF lookup.arg = NULL THEN db.servers
            ELSE { r \in db.servers : r.source = lookup.arg[1] })

\* Of three rows the two dynamic ones are listed, the important one first.
C24_Witness ==
    /\ lookup.op = "get_all_servers" /\ lookup.arg = Some("dynamic")
    /\ Cardinality(db.servers) = 3
    /\ Len(lookup.ret) = 2
    /\ lookup.ret[1].important /\ ~lookup.ret[1].trusted
    /\ lookup.ret[2].trusted /\ ~lookup.ret[2].important

\* q occurs in text, character for character.
Contains(column, q) ==
    /\ column # NULL
    /\ \E i \in 0 .. Len(Chars(column[1])) :
          /\ i + Len(q) <= Len(Chars(column[1]))
          /\ SubSeq(Chars(column[1]), i + 1, i + Len(q)) = q

\* C25: search_servers(q) returns exactly the rows whose name, info or ip
\* contains q as a case-sensitive literal substring, in the list's order.
C25_SearchLiteral ==
    lookup.op = "search_servers" =>
        ExactlyInOrder(lookup.ret,
            { r \in db.servers :
                \/ Contains(r.name, Chars(lookup.arg[1]))
                \/ Contains(r.info, Chars(lookup.arg[1]))
                \/ Contains(Some(r.ip), Chars(lookup.arg[1])) })

\* ---------------------------------------------------------------------------
\* dss_query: packets are sequences of bytes, text is a sequence of code
\* points; offsets count from 0 as in the code.

NET_MSG_LISTING == 0
NET_SVM_WHATS_UP == 1
NET_SVM_LIST_SERVER == 2
NET_SI_USE_SSL == 1

\* LISTING_USERNAME.encode(): "__dsslist"
LISTING_USERNAME == <<95, 95, 100, 115, 115, 108, 105, 115, 116>>

\* What a call raised.
Raised(kind) == <<"raised", kind>>

\* struct.pack("<I", n) and struct.pack("<H", n)
Pack32(n) ==
    <<n % 256, (n \div 256) % 256, (n \div 65536) % 256,
      (n \div 16777216) % 256>>

Pack16(n) == <<n % 256, (n \div 256) % 256>>

\* struct.unpack_from("<I", buf, off)[0] and struct.unpack_from("<H", ...),
\* which raise struct.error when buf ends before off + 4 (off + 2).
Unpack32(buf, off) ==
    buf[off + 1] + 256 * buf[off + 2] + 65536 * buf[off + 3]
      + 16777216 * buf[off + 4]

Unpack16(buf, off) == buf[off + 1] + 256 * buf[off + 2]

\* buf[from:]
SliceFrom(buf, from) ==
    IF from >= Len(buf) THEN <<>> ELSE SubSeq(buf, from + 1, Len(buf))

\* buf[from:to], which stops at the end of buf.
Slice(buf, from, to) ==
    IF from >= Len(buf) \/ to <= from THEN <<>>
    ELSE SubSeq(buf, from + 1, IF to > Len(buf) THEN Len(buf) ELSE to)

\* bytes.decode(errors="ignore") for bytes that form one- and two-byte UTF-8
\* sequences: a byte that starts or continues no valid sequence is dropped.
RECURSIVE Utf8DecodeIgnore(_)
Utf8DecodeIgnore(b) ==
    IF b = <<>> THEN <<>>
    ELSE IF b[1] < 128 THEN <<b[1]>> \o Utf8DecodeIgnore(Tail(b))
    ELSE IF b[1] \in 194 .. 223 /\ Len(b) >= 2 /\ b[2] \in 128 .. 191
    THEN <<(b[1] - 192) * 64 + (b[2] - 128)>>
           \o Utf8DecodeIgnore(Tail(Tail(b)))
    ELSE Utf8DecodeIgnore(Tail(b))

\* str.encode() for code points below U+0800.
RECURSIVE Utf8Encode(_)
Utf8Encode(s) ==
    IF s = <<>> THEN <<>>
    ELSE IF s[1] < 128 THEN <<s[1]>> \o Utf8Encode(Tail(s))
    ELSE <<192 + (s[1] \div 64), 128 + (s[1] % 64)>> \o Utf8Encode(Tail(s))

\* recv_exact(sock, n) on what the server still sends: the n bytes and the
\* rest, or the ConnectionError of a closed connection (the socket's timeout
\* when the server sends no more and keeps the connection open).
RecvExact(stream, n) ==
    IF n <= 0 THEN <<"ok", <<>>, stream>>
    ELSE IF Len(stream) >= n
    THEN <<"ok", SubSeq(stream, 1, n), SliceFrom(stream, n)>>
    ELSE Raised("ConnectionError")

\* recv_packet(sock): header + recv_exact(sock, size - 4)
RecvPacket(stream) ==
    LET header == RecvExact(stream, 4) IN
    IF header[1] # "ok" THEN header
    ELSE LET rest == RecvExact(header[3], Unpack32(header[2], 0) - 4) IN
         IF rest[1] # "ok" THEN rest
         ELSE <<"ok", header[2] \o rest[2], rest[3]>>

\* if msg[0] != NET_SVM_WHATS_UP
IsWhatsUpAny(msg) == TRUE

IsWhatsUp(msg) == msg[1] = NET_SVM_WHATS_UP

\* parse_whats_up(pkt): (flags, version, netver), or what it raises.
parse_whats_up(pkt) ==
    LET msg == SliceFrom(pkt, 4) IN
    IF Len(msg) < 1 THEN Raised("IndexError")
    ELSE IF ~IsWhatsUp(msg) THEN Raised("ValueError")
    ELSE IF Len(msg) < 2 THEN Raised("IndexError")
    ELSE IF Len(msg) < 6 THEN Raised("struct.error")
    ELSE <<"ok", msg[2], Unpack32(msg, 2), Utf8DecodeIgnore(SliceFrom(msg, 6))>>

\* build_listing_request(version, netver)
BuildListingRequestUnterminated(version, netver) ==
    LET payload == <<NET_MSG_LISTING>> \o Pack32(version)
                     \o Utf8Encode(netver) \o <<1>> \o LISTING_USERNAME
    IN Pack32(4 + Len(payload)) \o payload

build_listing_request(version, netver) ==
    LET payload == <<NET_MSG_LISTING>> \o Pack32(version)
                     \o Utf8Encode(netver) \o <<0>> \o <<1>>
                     \o LISTING_USERNAME
    IN Pack32(4 + Len(payload)) \o payload

\* buf.index(0, off): the offset of the first zero byte at or after off;
\* Len(buf) stands for the ValueError of a buffer without one.
IndexOfZero(buf, off) ==
    LET zeros == { i \in off .. (Len(buf) - 1) : buf[i + 1] = 0 } IN
    IF zeros = {} THEN Len(buf)
    ELSE CHOOSE i \in zeros : \A j \in zeros : i <= j

\* read_cstring(buf, off): (text, end + 1)
ReadCStringWithTerminator(buf, off) ==
    LET end == IndexOfZero(buf, off) IN
    IF end >= Len(buf) THEN Raised("ValueError")
    ELSE <<"ok", Utf8DecodeIgnore(Slice(buf, off, end + 1)), end + 1>>

read_cstring(buf, off) ==
    LET end == IndexOfZero(buf, off) IN
    IF end >= Len(buf) THEN Raised("ValueError")
    ELSE <<"ok", Utf8DecodeIgnore(Slice(buf, off, end)), end + 1>>

\* The dict parse_list_server returns.
Listing(name, info, news, players, max_players, icon) ==
    <<"dict", [name |-> name, info |-> info, news |-> news,
               players |-> players, max_players |-> max_players,
               icon |-> icon]>>

\* parse_list_server(pkt): the dict, or what it raises. The message type,
\* pkt[4], is skipped with the length.
parse_list_server(pkt) ==
    LET buf == SliceFrom(pkt, 5)
        name == read_cstring(buf, 0)
    IN
    IF name[1] # "ok" THEN name
    ELSE LET info == read_cstring(buf, name[3]) IN
    IF info[1] # "ok" THEN info
    ELSE LET news == read_cstring(buf, info[3]) IN
    IF news[1] # "ok" THEN news
    ELSE LET off == news[3] IN
    IF off + 4 > Len(buf) THEN Raised("struct.error")
    ELSE LET icon_size == Unpack32(buf, off)
             icon == Slice(buf, off + 4, off + 4 + icon_size)
             end == off + 4 + icon_size
         IN
    IF end + 4 > Len(buf) THEN Raised("struct.error")
    ELSE Listing(name[2], info[2], news[2], Unpack16(buf, end),
                 Unpack16(buf, end + 2), icon)

\* ---- the server's side of a session, and query_dss step by step

\* Longest network-version field a greeting carries.
MaxNetver == 2

\* Bytes of the network-version field: NUL, "1", a continuation byte, the
\* lead byte of a two-byte sequence, a byte no UTF-8 text holds.
NetverBytes == {0, 49, 169, 195, 255}

Netvers == UNION { [1 .. n -> NetverBytes] : n \in 0 .. MaxNetver }

\* Protocol versions: 1 and 0x01000101.
Versions == {1, 16777473}

GreetingTypes == {NET_SVM_WHATS_UP, NET_SVM_LIST_SERVER}

GreetingFlags == {0, 1, 2}

\* A packet: the length of the whole packet in 4 bytes, then the message.
Frame(msg) == Pack32(4 + Len(msg)) \o msg

\* The greeting a server builds: type, flags, version, network version.
WhatsUpFrame(type, flags, version, netver) ==
    Frame(<<type, flags>> \o Pack32(version) \o netver)

\* The listing a server builds from a snapshot: type, three NUL-terminated
\* strings, the icon's length and bytes, players and max_players.
ListServerFrame(type, s) ==
    Frame(<<type>> \o Utf8Encode(s.name) \o <<0>> \o Utf8Encode(s.info) \o <<0>>
            \o Utf8Encode(s.news) \o <<0>> \o Pack32(Len(s.icon)) \o s.icon
            \o Pack16(s.players) \o Pack16(s.max_players))

\* Snapshots on the wire: text with and without a two-byte character, an
\* icon with a zero byte, counts above one byte.
WireSnapshots ==
    [name : {<<>>, <<84, 233>>}, info : {<<72>>}, news : {<<>>},
     players : {0, 258}, max_players : {65535}, icon : {<<>>, <<137, 0>>}]

\* What a server sends on connection: a greeting, or less than one.
ServerGreetings ==
    { WhatsUpFrame(ty, fl, v, nv) :
        ty \in GreetingTypes, fl \in GreetingFlags, v \in Versions,
        nv \in Netvers }
      \cup { <<>>, <<0, 0, 0, 0>>, Frame(<<>>), Frame(<<NET_SVM_WHATS_UP>>),
             Frame(<<NET_SVM_WHATS_UP, 0, 1>>), <<12, 0, 0, 0, 1, 0>> }

\* What a server sends after the listing request: a listing of either
\* message type, or nothing, or a packet that ends early.
ServerReplies ==
    { ListServerFrame(ty, s) : ty \in {NET_SVM_LIST_SERVER, 7},
                               s \in WireSnapshots }
      \cup { <<>>, Frame(<<>>), Frame(<<NET_SVM_LIST_SERVER, 84>>),
             Frame(<<NET_SVM_LIST_SERVER, 84, 0, 0, 0, 1>>),
             Frame(<<NET_SVM_LIST_SERVER, 0, 0, 0, 5, 0, 0, 0, 1, 2, 3, 4,
                     5, 6>>) }

InitQuery ==
    /\ db = EmptyDb
    /\ prior = db
    /\ InitHistory
    /\ InitThreads
    /\ InitDiscovery

sessionFrame ==
    <<storeVars, threadVars, events, refresh, jobs, reval, fault, auto,
      lookup>>

\* The call ends with an exception.
Raise(s, exc) == [s EXCEPT !.pc = "raised", !.ret = exc]

\* if flags: any flag set, not NET_SI_USE_SSL alone.
UseSslAnyFlag(flags) == flags # 0

\* flags & NET_SI_USE_SSL
UseSsl(flags) == flags % 2 = NET_SI_USE_SSL

\* sock = socket.create_connection((host, port), timeout=timeout); the
\* server sends its greeting.
query_dss_connect(o) ==
    /\ session.pc = "idle"
    /\ session' = IF o[1] = "ok"
                  THEN [session EXCEPT !.pc = "recv_greeting", !.inbox = o[2],
                                       !.log = Append(@, <<"connect">>)]
                  ELSE Raise(session, o)
    /\ UNCHANGED sessionFrame

\* pkt = recv_packet(sock)
query_dss_recv_greeting ==
    /\ session.pc = "recv_greeting"
    /\ LET r == RecvPacket(session.inbox) IN
       session' = IF r[1] = "ok"
                  THEN [session EXCEPT !.pc = "parse_whats_up",
                                       !.greeting = Some(r[2]),
                                       !.inbox = r[3],
                                       !.log = Append(@, <<"recv_packet">>)]
                  ELSE Raise(session, r)
    /\ UNCHANGED sessionFrame

\* flags, version, netver = parse_whats_up(pkt); if flags & NET_SI_USE_SSL
query_dss_parse_whats_up ==
    /\ session.pc = "parse_whats_up"
    /\ LET r == parse_whats_up(session.greeting[1]) IN
       session' = IF r[1] = "ok"
                  THEN [session EXCEPT
                          !.pc = IF UseSsl(r[2]) THEN "wrap_socket"
                                 ELSE "sendall",
                          !.flags = r[2], !.version = r[3], !.netver = r[4]]
                  ELSE Raise(session, r)
    /\ UNCHANGED sessionFrame

\* sock = ctx.wrap_socket(sock, server_hostname=host): the handshake
\* succeeds or raises.
query_dss_wrap_socket(o) ==
    /\ session.pc = "wrap_socket"
    /\ session' = IF o[1] = "ok"
                  THEN [session EXCEPT !.pc = "sendall",
                                       !.log = Append(@, <<"wrap_socket">>)]
                  ELSE Raise(session, o)
    /\ UNCHANGED sessionFrame

\* sock.sendall(build_listing_request(version, netver)); the server
\* answers.
query_dss_sendall(reply) ==
    /\ session.pc = "sendall"
    /\ session' =
         [session EXCEPT
            !.pc = "recv_listing",
            !.log = Append(@, <<"sendall",
                                build_listing_request(session.version,
                                                      session.netver)>>),
            !.inbox = @ \o reply]
    /\ UNCHANGED sessionFrame

\* pkt = recv_packet(sock)
query_dss_recv_listing ==
    /\ session.pc = "recv_listing"
    /\ LET r == RecvPacket(session.inbox) IN
       session' = IF r[1] = "ok"
                  THEN [session EXCEPT !.pc = "parse_list_server",
                                       !.reply = Some(r[2]),
                                       !.inbox = r[3],
                                       !.log = Append(@, <<"recv_packet">>)]
                  ELSE Raise(session, r)
    /\ UNCHANGED sessionFrame

\* return parse_list_server(pkt)
query_dss_parse_list_server ==
    /\ session.pc = "parse_list_server"
    /\ LET r == parse_list_server(session.reply[1]) IN
       session' = IF r[1] = "dict"
                  THEN [session EXCEPT !.pc = "returned", !.ret = r]
                  ELSE Raise(session, r)
    /\ UNCHANGED sessionFrame

NextQuery ==
    \/ \E o \in { <<"ok", g>> : g \in ServerGreetings } \cup {Raised("OSError")} :
          query_dss_connect(o)
    \/ query_dss_recv_greeting
    \/ query_dss_parse_whats_up
    \/ \E o \in {<<"ok">>, Raised("SSLError")} : query_dss_wrap_socket(o)
    \/ \E reply \in ServerReplies : query_dss_sendall(reply)
    \/ query_dss_recv_listing
    \/ query_dss_parse_list_server

SpecQuery == InitQuery /\ [][NextQuery]_vars

\* ---------------------------------------------------------------------------
\* Claims on query_dss (SpecQuery)

\* C26: the listing request sent carries the greeting's protocol version and
\* the greeting's network-version bytes unchanged, then one NUL byte, the
\* flag byte 1 and the listing username, behind the message type and a
\* 4-byte little-endian length equal to the length of the whole packet.
C26_ListingRequestEchoes ==
    [][(session.pc = "sendall" /\ session'.pc = "recv_listing") =>
          LET g == session.greeting[1]
              request == session'.log[Len(session'.log)][2]
          IN request = Pack32(Len(request)) \o <<NET_MSG_LISTING>>
                         \o Slice(g, 6, 10) \o SliceFrom(g, 10)
                         \o <<0, 1>> \o LISTING_USERNAME]_vars

\* The bytes are UTF-8 text of one- and two-byte sequences.
RECURSIVE ValidUtf8(_)
ValidUtf8(b) ==
    IF b = <<>> THEN TRUE
    ELSE IF b[1] < 128 THEN ValidUtf8(Tail(b))
    ELSE /\ b[1] \in 194 .. 223
         /\ Len(b) >= 2
         /\ b[2] \in 128 .. 191
         /\ ValidUtf8(Tail(Tail(b)))

\* C26, amended: the listing request sent is a packet of its own length in
\* 4 little-endian bytes, the message type, the greeting's version bytes
\* unchanged, a network-version field, one NUL byte, the flag byte 1 and the
\* listing username; the network-version field is the greeting's, byte for
\* byte, when those bytes are valid UTF-8.
C26_EchoesValidNetver ==
    [][(session.pc = "sendall" /\ session'.pc = "recv_listing") =>
          LET g == session.greeting[1]
              request == session'.log[Len(session'.log)][2]
              n == Len(request)
          IN /\ n >= 20
             /\ Slice(request, 0, 4) = Pack32(n)
             /\ request[5] = NET_MSG_LISTING
             /\ Slice(request, 5, 9) = Slice(g, 6, 10)
             /\ Slice(request, n - 11, n) = <<0, 1>> \o LISTING_USERNAME
             /\ ValidUtf8(SliceFrom(g, 10)) =>
                  Slice(request, 9, n - 11) = SliceFrom(g, 10)]_vars

\* The request for a greeting of version 0x01000101 whose network version is
\* one two-byte character has been sent.
C26_Witness ==
    /\ session.pc = "recv_listing"
    /\ session.greeting =
         Some(WhatsUpFrame(NET_SVM_WHATS_UP, 0, 16777473, <<195, 169>>))
    /\ session.log[Len(session.log)] =
         <<"sendall", <<22, 0, 0, 0, 0, 1, 1, 0, 1, 195, 169, 0, 1,
                        95, 95, 100, 115, 115, 108, 105, 115, 116>>>>

\* C27: a listing packet built from a snapshot (three NUL-terminated strings,
\* the icon's length in 4 bytes, the icon, players and max_players in 2 bytes
\* each) is decoded to that snapshot: name, info, news, icon, players and
\* max_players are the ones encoded.
C27_ListingRoundTrip ==
    \A s \in WireSnapshots :
        (/\ session.reply = Some(ListServerFrame(NET_SVM_LIST_SERVER, s))
         /\ session.pc \in {"returned", "raised"}) =>
            /\ session.pc = "returned"
            /\ session.ret[1] = "dict"
            /\ session.ret[2] = s

\* A listing with a two-byte character in its name, a zero byte in its icon
\* and a player count above 255 has been returned as encoded.
C27_Witness ==
    /\ session.pc = "returned"
    /\ session.ret[1] = "dict"
    /\ session.ret[2] = [name |-> <<84, 233>>, info |-> <<72>>, news |-> <<>>,
                         players |-> 258, max_players |-> 65535,
                         icon |-> <<137, 0>>]
    /\ session.reply = Some(ListServerFrame(NET_SVM_LIST_SERVER, session.ret[2]))

\* The message type of a packet that has one.
TypeOf(pkt) == pkt[5]

\* C28: when the greeting's message type is not WHATS_UP the call raises and
\* ends there: no TLS upgrade, no listing request, no snapshot.
C28_WrongGreetingType ==
    (/\ session.greeting # NULL
     /\ Len(session.greeting[1]) >= 5
     /\ TypeOf(session.greeting[1]) # NET_SVM_WHATS_UP
     /\ session.pc # "parse_whats_up") =>
        /\ session.pc = "raised"
        /\ session.ret[1] = "raised" /\ session.ret[2] = "ValueError"
        /\ Len(session.log) = 2
        /\ session.log[1] = <<"connect">> /\ session.log[2] = <<"recv_packet">>
        /\ session.reply = NULL

\* A greeting of type LIST_SERVER that asks for TLS has ended the call.
C28_Witness ==
    /\ session.pc = "raised"
    /\ session.greeting # NULL
    /\ Len(session.greeting[1]) >= 6
    /\ TypeOf(session.greeting[1]) = NET_SVM_LIST_SERVER
    /\ session.greeting[1][6] = 1
    /\ session.ret[1] = "raised" /\ session.ret[2] = "ValueError"

\* C29: when the message type of the packet received after the listing
\* request is not LIST_SERVER the call raises and returns no snapshot.
C29_WrongReplyType ==
    (/\ session.reply # NULL
     /\ Len(session.reply[1]) >= 5
     /\ TypeOf(session.reply[1]) # NET_SVM_LIST_SERVER
     /\ session.pc # "parse_list_server") =>
        session.pc = "raised"

\* ---------------------------------------------------------------------------
\* add_server, update_server_info and mark_query_failure on several threads:
\* each call opens a connection of its own (sqlite3.connect with the default
\* timeout of 5 seconds), runs its statement, which takes the write lock of
\* the database file, and commits.

WriteOps == {"add_server", "update_server_info", "mark_query_failure"}

WriteCalls == [op : WriteOps, key : Keys]

\* What the call's statement does to the table.
ApplyWrite(d, c) ==
    CASE c.op = "add_server" ->
           DbAddServer(d, c.key, "dynamic", FALSE, FALSE, NULL, 1)
      [] c.op = "update_server_info" ->
           DbUpdateServerInfo(d, c.key,
               CHOOSE s \in Snapshots : s.name = "Test", 1)
      [] c.op = "mark_query_failure" -> DbMarkQueryFailure(d, c.key, 1)

\* Empty, or rows for both pairs.
WritePriors ==
    {EmptyDb,
     DbAddServer(DbAddServer(EmptyDb, <<"a", 1>>, "manual", FALSE, FALSE,
                             NULL, 1),
                 <<"a", 2>>, "dynamic", FALSE, FALSE, NULL, 1)}

InitWrite ==
    /\ prior \in WritePriors
    /\ db = prior
    /\ InitHistory
    /\ InitThreads
    /\ InitDiscovery

writeFrame == <<last, hist, prior, discoveryVars>>

\* with sqlite3.connect(self.db_path) as conn
write_call(w, c) ==
    /\ threads[w].pc = "idle"
    /\ threads' = [threads EXCEPT ![w] = [@ EXCEPT !.pc = "execute",
                                                   !.call = Some(c)]]
    /\ UNCHANGED <<db, lock, writeFrame>>

\* conn.execute(INSERT ... / UPDATE ...): the statement begins the
\* transaction and takes the write lock, which is free.
write_execute(w) ==
    /\ threads[w].pc = "execute"
    /\ WriteLockFree(lock, w)
    /\ lock' = Some(w)
    /\ threads' = [threads EXCEPT ![w] =
                     [@ EXCEPT !.pc = "commit",
                               !.pending = Some(ApplyWrite(db, CallOf(w)))]]
    /\ UNCHANGED <<db, writeFrame>>

\* conn.execute(...) while another connection holds the write lock: the
\* statement waits, and when the 5 seconds of the connection's timeout are
\* over it raises sqlite3.OperationalError (database is locked).
write_busy_timeout(w) ==
    /\ threads[w].pc = "execute"
    /\ ~WriteLockFree(lock, w)
    /\ threads' = [threads EXCEPT ![w] = [@ EXCEPT !.pc = "raised"]]
    /\ UNCHANGED <<db, lock, writeFrame>>

\* conn.commit(), or the commit at the end of the with block.
write_commit(w) ==
    /\ threads[w].pc = "commit"
    /\ db' = threads[w].pending[1]
    /\ lock' = NULL
    /\ threads' = [threads EXCEPT ![w] = [@ EXCEPT !.pc = "done",
                                                   !.pending = NULL]]
    /\ UNCHANGED writeFrame

NextWrite ==
    \/ \E w \in Threads, c \in WriteCalls : write_call(w, c)
    \/ \E w \in Threads : write_execute(w)
    \/ \E w \in Threads : write_busy_timeout(w)
    \/ \E w \in Threads : write_commit(w)

SpecWrite == InitWrite /\ [][NextWrite]_vars

\* No other thread has a call under way on the key of w's call.
KeyToItself(w) ==
    /\ threads[w].call # NULL
    /\ \A v \in Threads \ {w} :
         threads[v].call # NULL => CallOf(v).key # CallOf(w).key

\* C30: a call on one (ip, port) is never blocked, and never made to fail,
\* by a call under way on another (ip, port): its statement can run as soon
\* as it is issued, and it does not raise.
C30_OtherKeysDoNotInterfere ==
    \A w \in Threads :
        KeyToItself(w) =>
            /\ threads[w].pc = "execute" => WriteLockFree(lock, w)
            /\ threads[w].pc # "raised"

\* ---------------------------------------------------------------------------
\* What the calls leave alone in a row that exists

\* The time at which the rows of FramePriors were inserted, before any time
\* of Times: their added_date.
Before == 0

\* The tables the calls meet: the row of ("a", 1) inserted at time Before with
\* any source, then queried with success and marked failed once;
\* sqlite_sequence stands at 1.
FramePriors ==
    { DbMarkQueryFailure(
          DbUpdateServerInfo(
              DbAddServer(EmptyDb, <<"a", 1>>, src, TRUE, FALSE, Some("w1"),
                          Before),
              <<"a", 1>>, sn, Before),
          <<"a", 1>>, Before) :
        src \in Sources, sn \in { x \in Snapshots : x.name = "Test" } }

InitFrame ==
    /\ db \in FramePriors
    /\ prior = db
    /\ InitHistory
    /\ InitThreads
    /\ InitDiscovery

\* The arguments of the calls: flags and a website other than those of the
\* rows of FramePriors, the source add_server has by default (validation adds
\* as dynamic), and one query outcome of each kind.
FrameSources == {"manual"}
FrameFlags == {<<FALSE, TRUE>>}
FrameWebsites == {Some("")}
FrameSnapshots == { s \in Snapshots : s.name = "Other" }
FrameOutcomes == {NULL} \cup { Some(s) : s \in FrameSnapshots }

\* Every call of ServerManager and the two of DynamicServerLoader that write.
NextFrame ==
    \/ \E k \in Keys, src \in FrameSources, f \in FrameFlags,
          w \in FrameWebsites,
          t \in Times :
            add_server(k, src, f[1], f[2], w, t)
    \/ \E k \in Keys, s \in FrameSnapshots, t \in Times :
          update_server_info(k, s, t)
    \/ \E k \in Keys, t \in Times : mark_query_failure(k, t)
    \/ \E k \in Keys : remove_server(k)
    \/ \E n \in Thresholds : cleanup_failed_servers(n)
    \/ \E k \in Keys, b \in BOOLEAN : set_favorite(k, b)
    \/ \E k \in Keys, f \in DefaultFlags, w \in DefaultWebsites,
          o \in FrameOutcomes, t \in Times :
            validate_and_add_server(k, f[1], f[2], w, o, t)
    \/ \E o \in [Keys -> FrameOutcomes], t \in Times :
          revalidate_all_servers(o, t)

SpecFrame == InitFrame /\ [][NextFrame]_vars

\* C31: no call changes the added_date or the id of a row that exists before
\* and after it, and add_server on a key that has a row changes at most the
\* row's source, trusted, important, website and last_seen: name, info, news,
\* players, max_players, icon, last_queried and query_failures stay.
C31_AddedDateAndInfoKept ==
    [][/\ \A r \in db.servers :
            Has(db'.servers, KeyOf(r)) =>
              /\ Row(db'.servers, KeyOf(r)).id = r.id
              /\ Row(db'.servers, KeyOf(r)).added_date = r.added_date
       /\ \A k \in Keys, src \in FrameSources, f \in FrameFlags,
             w \in FrameWebsites, t \in Times :
            (add_server(k, src, f[1], f[2], w, t) /\ Has(db.servers, k)) =>
              LET r == Row(db.servers, k)
                  n == Row(db'.servers, k)
              IN /\ Has(db'.servers, k)
                 /\ n = [r EXCEPT !.source = n.source,
                                  !.trusted = n.trusted,
                                  !.important = n.important,
                                  !.website = n.website,
                                  !.last_seen = n.last_seen]]_vars

\* A row inserted at time Before as dynamic, queried and marked failed once,
\* has been added again as manual at a later time with other flags: it keeps
\* its id, its added_date, its info and its failure count, and has the new
\* source, flags and last_seen.
C31_Witness ==
    /\ last.op = "add_server"
    /\ Has(prior.servers, <<"a", 1>>) /\ Has(db.servers, <<"a", 1>>)
    /\ LET r == Row(prior.servers, <<"a", 1>>)
           n == Row(db.servers, <<"a", 1>>)
       IN /\ r.source = "dynamic" /\ r.name = Some("Test")
          /\ r.query_failures = 1 /\ r.added_date = Before
          /\ n.source = "manual" /\ n.trusted = FALSE /\ n.important = TRUE
          /\ n.last_seen # r.last_seen
          /\ n.added_date = Before /\ n.id = r.id
          /\ n.name = Some("Test") /\ n.query_failures = 1

\* What was done on the socket, in order, without the bytes sent.
RECURSIVE Tags(_)
Tags(log) == IF log = <<>> THEN <<>> ELSE <<log[1][1]>> \o Tags(Tail(log))

IsPrefix(s, t) == Len(s) <= Len(t) /\ s = SubSeq(t, 1, Len(s))

\* Bit 0 of the flags byte of the greeting as it came off the wire.
GreetingBit0 == session.greeting[1][6] % 2 = 1

\* C32: the steps of a query come in the order connect, receive greeting,
\* TLS upgrade (optional), send listing request, receive listing response;
\* the upgrade is made if and only if bit 0 of the greeting's flags is set,
\* and then the listing request is sent only after the upgrade is complete.
C32_StepOrder ==
    LET done == Tags(session.log) IN
    /\ \/ IsPrefix(done, <<"connect", "recv_packet", "sendall",
                           "recv_packet">>)
       \/ IsPrefix(done, <<"connect", "recv_packet", "wrap_socket",
                           "sendall", "recv_packet">>)
    /\ Len(done) >= 3 =>
         /\ session.greeting # NULL
         /\ done[3] = "wrap_socket" <=> GreetingBit0

\* A query whose greeting had bit 0 set has returned a listing after the five
\* steps.
C32_Witness ==
    /\ session.pc = "returned"
    /\ session.greeting[1][6] = 1
    /\ Tags(session.log) = <<"connect", "recv_packet", "wrap_socket",
                             "sendall", "recv_packet">>

\* ---------------------------------------------------------------------------
\* The pool of refresh_dynamic_servers (SpecRefresh)

\* The entries of the fetched list that have key k.
EntriesOf(k) == { i \in DOMAIN jobs : JobKey(i) = k }

\* C33: during a refresh at most max_concurrent validate_and_add_server calls
\* are under way at any moment, and every entry of the fetched list is handed
\* to validate_and_add_server exactly once: one call per position of the list,
\* so a key listed twice is validated twice, triggers two callbacks and is
\* counted twice.
C33_BoundedDispatch ==
    jobs # <<>> =>
      /\ Cardinality({ i \in DOMAIN jobs :
                         jobs[i].pc \notin {"queued", "done"} })
           <= refresh.max_concurrent
      /\ Len(jobs) = Len(refresh.servers)
      /\ \A i \in DOMAIN jobs : jobs[i].server = refresh.servers[i]
      /\ \A k \in Keys :
           Triggered("on_server_validated", k)
             + Triggered("on_server_failed", k)
           = Cardinality({ i \in EntriesOf(k) :
                             /\ jobs[i].pc = "done"
                             /\ jobs[i].result # <<"raised">> })
      /\ Returned =>
           /\ \A i \in DOMAIN jobs : jobs[i].pc = "done"
           /\ refresh.new_count + refresh.failed_count = Len(refresh.servers)

\* A refresh with a pool of one thread, whose list named ("a", 1) twice, has
\* returned: the key was validated twice and counted twice.
C33_Witness ==
    /\ Returned /\ refresh.max_concurrent = 1
    /\ Len(jobs) = 2 /\ JobKey(1) = <<"a", 1>> /\ JobKey(2) = <<"a", 1>>
    /\ Triggered("on_server_validated", <<"a", 1>>) = 2
    /\ events[Len(events)] = <<"on_fetch_complete", 2, 2, 0>>

\* ---------------------------------------------------------------------------
\* A refresh with remove_server and cleanup_failed_servers called beside it

\* The database the refresh starts from: empty, or the dynamic row of
\* ("a", 1) with one failure marked.
RacePriors ==
    { EmptyDb,
      DbMarkQueryFailure(
          DbAddServer(EmptyDb, <<"a", 1>>, "dynamic", FALSE, FALSE, NULL, 1),
          <<"a", 1>>, 1) }

\* max_failures of the cleanup_failed_servers calls made meanwhile.
RaceThresholds == {1}

InitRace ==
    /\ db \in RacePriors
    /\ prior = db
    /\ InitHistory
    /\ InitThreads
    /\ InitDiscovery

\* The UI thread removes a row or evicts the failed ones while the pool's
\* threads validate: each store call is one transaction, and the calls of
\* different threads interleave between transactions.
remove_server_meanwhile(k) ==
    /\ refresh.pc = "as_completed"
    /\ remove_server(k)

cleanup_failed_servers_meanwhile(n) ==
    /\ refresh.pc = "as_completed"
    /\ cleanup_failed_servers(n)

NextRace ==
    \/ NextRefresh
    \/ \E k \in Keys : remove_server_meanwhile(k)
    \/ \E n \in RaceThresholds : cleanup_failed_servers_meanwhile(n)

SpecRace == InitRace /\ [][NextRace]_vars

\* C34: whenever validate_and_add_server returns True and triggers
\* on_server_validated, with remove_server or cleanup_failed_servers called
\* on its key by another thread in any interleaving, the key has a row whose
\* query_failures is 0 and whose info columns are those of the query's answer.
C34_ValidatedRowHeld ==
    [][\A i \in 1 .. MaxCandidates :
         validate_on_server_validated(i) =>
           /\ Has(db'.servers, JobKey(i))
           /\ LET r == Row(db'.servers, JobKey(i))
                  s == jobs[i].info[1]
              IN /\ r.query_failures = 0
                 /\ r.name = Some(s.name) /\ r.info = Some(s.info)
                 /\ r.news = Some(s.news) /\ r.players = Some(s.players)
                 /\ r.max_players = Some(s.max_players)
                 /\ r.icon = Some(s.icon)]_vars

\* The threads that have issued a call on key k.
CallsOn(k) == { w \in Threads : threads[w].call # NULL /\ CallOf(w).key = k }

\* C35: failure marks issued at the same time on the row of one key are never
\* lost: when every call issued on the key of an existing row is a
\* mark_query_failure (no success in between), the row's query_failures is
\* what it was plus the number of marks that have returned, however the
\* calls' statements and commits interleave.
C35_MarksNotLost ==
    \A k \in Keys :
        (/\ Has(prior.servers, k)
         /\ \A w \in CallsOn(k) : CallOf(w).op = "mark_query_failure") =>
          /\ Has(db.servers, k)
          /\ Row(db.servers, k).query_failures =
               Row(prior.servers, k).query_failures
                 + Cardinality({ w \in CallsOn(k) : threads[w].pc = "done" })

\* Both threads have marked a failure on the row of ("a", 1) and returned:
\* the row has two failures more.
C35_Witness ==
    /\ Has(prior.servers, <<"a", 1>>)
    /\ \A w \in Threads :
         /\ threads[w].pc = "done"
         /\ CallOf(w) = [op |-> "mark_query_failure", key |-> <<"a", 1>>]
    /\ Row(db.servers, <<"a", 1>>).query_failures =
         Row(prior.servers, <<"a", 1>>).query_failures + 2

\* ---------------------------------------------------------------------------
\* Starting and stopping the auto-refresh loop again (SpecAuto)

\* C36: at any time at most one refresh_loop thread is alive, whatever the
\* sequence of start_auto_refresh and stop_auto_refresh calls: a start called
\* while the thread is alive starts no second one.
C36_OneLoopThread ==
    /\ auto.alive \in {0, 1}
    /\ auto.alive = 1 <=> auto.thread = "alive"

\* start_auto_refresh has been called after stop_auto_refresh while the
\* thread, told to stop, was still alive: there is still one thread.
C36_Witness ==
    /\ auto.asked = "restart"
    /\ auto.thread = "alive" /\ auto.stop_refresh
    /\ auto.alive = 1

\* C37: once start_auto_refresh has been called after stop_auto_refresh, and
\* as long as stop_auto_refresh is not called again, refreshes begin again
\* and go on recurring (up to MaxCycles of them), whatever the old loop was
\* doing when start was called.
C37_RestartResumes ==
    \A n \in 0 .. (MaxCycles - 1) :
        (auto.asked = "restart" /\ NumStarts = n) ~>
            (NumStarts > n \/ auto.asked = "stop")

\* ---------------------------------------------------------------------------
\* A refresh whose callbacks raise

\* The callback that raises each time it is called: one of the two of
\* refresh_dynamic_servers, the one of its error reports, or one of the two
\* of the first validate_and_add_server call.
CallbackFaultPlans ==
    { Some(<<0, name>>) :
        name \in {"on_fetch_start", "on_fetch_complete", "on_error"} }
    \cup { Some(<<1, name>>) :
             name \in {"on_server_validated", "on_server_failed"} }

InitCallback ==
    /\ db \in RefreshPriors
    /\ prior = db
    /\ InitHistory
    /\ InitThreads
    /\ events = <<>>
    /\ refresh = IdleRefresh
    /\ jobs = <<>>
    /\ reval = IdleReval
    /\ fault \in CallbackFaultPlans
    /\ InitService

SpecCallback == InitCallback /\ [][NextRefresh]_vars

\* C38: an exception raised by a callback (on_fetch_start, on_server_validated,
\* on_server_failed, on_fetch_complete, on_error) never leaves the loader:
\* every validate_and_add_server call returns True when its query returned
\* and False when it raised, the store holds what the calls wrote (failures 0
\* and the answer's name after a success, one failure more after a failure on
\* a row), every entry of the list is processed, and on_fetch_complete
\* reports the numbers of queries that returned and that raised.
C38_CallbackErrorsContained ==
    /\ refresh.pc # "raised"
    /\ \A i \in DOMAIN jobs :
         jobs[i].pc = "done" =>
           /\ jobs[i].result = RetBool(jobs[i].info # NULL)
           /\ (KeyOnce(i) /\ jobs[i].info # NULL) =>
                /\ Has(db.servers, JobKey(i))
                /\ Row(db.servers, JobKey(i)).query_failures = 0
                /\ Row(db.servers, JobKey(i)).name
                     = Some(jobs[i].info[1].name)
           /\ (KeyOnce(i) /\ jobs[i].info = NULL) =>
                IF Has(prior.servers, JobKey(i))
                THEN /\ Has(db.servers, JobKey(i))
                     /\ Row(db.servers, JobKey(i)).query_failures =
                          Row(prior.servers, JobKey(i)).query_failures + 1
                ELSE ~Has(db.servers, JobKey(i))
    /\ (Returned /\ jobs # <<>>) =>
         LET ok == { i \in DOMAIN jobs : jobs[i].info # NULL } IN
         /\ \A i \in DOMAIN jobs : jobs[i].pc = "done"
         /\ events[Len(events)] =
              <<"on_fetch_complete", Len(refresh.servers), Cardinality(ok),
                Len(jobs) - Cardinality(ok)>>

\* A refresh whose on_server_validated callback raises in the first call has
\* returned: the first call returned True, the second entry was processed,
\* and both are counted as successes.
C38_Witness ==
    /\ fault = Some(<<1, "on_server_validated">>)
    /\ Returned /\ Len(jobs) = 2
    /\ jobs[1].result = RetBool(TRUE) /\ jobs[2].result = RetBool(TRUE)
    /\ Triggered("on_server_validated", JobKey(1)) >= 1
    /\ events[Len(events)] = <<"on_fetch_complete", 2, 2, 0>>

\* ---------------------------------------------------------------------------
\* DSSBManager.add_manual_server

\* add_manual_server(ip, port, website, validate) run with no other call in
\* between: outcome is what query_dss did. The database after the call and
\* the value returned. query_dss is called first when validate is set, and
\* its exception is caught by the method's except clause before any store
\* call is made; the dict it returns is never empty, so `if server_info`
\* is true exactly when the query was made.
DbAddManualServerAddFirst(d, k, website, validate, outcome, t) ==
    LET added == DbAddServer(d, k, "manual", FALSE, FALSE, website, t) IN
    IF validate /\ outcome = NULL
    THEN [db |-> added, ret |-> RetBool(FALSE)]
    ELSE [db |-> IF validate
                 THEN DbUpdateServerInfo(added, k, outcome[1], t)
                 ELSE added,
          ret |-> RetBool(TRUE)]

DbAddManualServer(d, k, website, validate, outcome, t) ==
    IF validate /\ outcome = NULL
    THEN [db |-> d, ret |-> RetBool(FALSE)]
    ELSE LET server_info == IF validate THEN outcome ELSE NULL
             added == DbAddServer(d, k, "manual", FALSE, FALSE, website, t)
         IN [db |-> IF server_info # NULL
                    THEN DbUpdateServerInfo(added, k, server_info[1], t)
                    ELSE added,
             ret |-> RetBool(TRUE)]

add_manual_server(k, website, validate, outcome, t) ==
    LET r == DbAddManualServer(db, k, website, validate, outcome, t) IN
    /\ db.seq < MaxId
    /\ db' = r.db
    /\ hist' = IF r.ret = RetBool(TRUE)
               THEN HistAddServer(hist, db, k, "manual") ELSE hist
    /\ last' = [op |-> "add_manual_server", ret |-> r.ret]
    /\ UNCHANGED <<threadVars, discoveryVars>>

\* The website typed in the dialog.
ManualWebsites == {Some("w2")}

\* The tables the call meets: none, or those of FramePriors.
InitManual ==
    /\ db \in {EmptyDb} \cup FramePriors
    /\ prior = db
    /\ InitHistory
    /\ InitThreads
    /\ InitDiscovery

NextManual ==
    \/ \E k \in Keys, w \in ManualWebsites, v \in BOOLEAN,
          o \in FrameOutcomes, t \in Times :
            add_manual_server(k, w, v, o, t)
    \/ \E k \in Keys, t \in Times : mark_query_failure(k, t)
    \/ \E k \in Keys, b \in BOOLEAN : set_favorite(k, b)
    \/ \E k \in Keys : remove_server(k)

SpecManual == InitManual /\ [][NextManual]_vars

\* C39: add_manual_server with validate set queries before it touches the
\* store. When the query fails it returns False and the database is as it
\* was: no row created, no column of an existing row changed. When the query
\* succeeds it returns True and the key has a row with query_failures 0 whose
\* source is manual, or favorite if the row was favorite already.
C39_ManualAddValidated ==
    [][\A k \in Keys, w \in ManualWebsites, o \in FrameOutcomes, t \in Times :
         add_manual_server(k, w, TRUE, o, t) =>
           IF o = NULL
           THEN /\ last'.ret = RetBool(FALSE)
                /\ db' = db
           ELSE /\ last'.ret = RetBool(TRUE)
                /\ Has(db'.servers, k)
                /\ Row(db'.servers, k).query_failures = 0
                /\ Row(db'.servers, k).source =
                     IF Has(db.servers, k)
                        /\ Row(db.servers, k).source = "favorite"
                     THEN "favorite" ELSE "manual"]_vars

\* A favorite row with one failure has been added again by hand with a
\* query that succeeded: True was returned, the row is still favorite, its
\* failures are 0 and it has the answer's name.
C39_Witness ==
    /\ last = [op |-> "add_manual_server", ret |-> RetBool(TRUE)]
    /\ Has(prior.servers, <<"a", 1>>) /\ Has(db.servers, <<"a", 1>>)
    /\ Row(prior.servers, <<"a", 1>>).source = "favorite"
    /\ Row(prior.servers, <<"a", 1>>).query_failures = 1
    /\ Row(db.servers, <<"a", 1>>).source = "favorite"
    /\ Row(db.servers, <<"a", 1>>).query_failures = 0
    /\ Row(db.servers, <<"a", 1>>).name = Some("Other")

\* ---------------------------------------------------------------------------
\* What revalidate_all_servers leaves alone (SpecRevalidate)

\* A step of the revalidate_all_servers call.
RevalStep ==
    \/ \E servers \in get_all_servers(db) : revalidate_call(servers)
    \/ \E o \in RefreshOutcomes : revalidate_query(o)
    \/ \E t \in Times : revalidate_update_server_info(t)
    \/ \E t \in Times : revalidate_mark_query_failure(t)

\* C40: revalidate_all_servers never adds a row and never removes one, and
\* never changes a row's source, trusted, important or website (nor its id,
\* last_seen or added_date): each of its steps changes at most the info
\* columns, last_queried and query_failures of rows that exist; a row that
\* another thread removed after the call read its list is not created again.
C40_RevalidateFrame ==
    [][RevalStep =>
         /\ KeysOf(db'.servers) = KeysOf(db.servers)
         /\ Cardinality(db'.servers) = Cardinality(db.servers)
         /\ db'.seq = db.seq
         /\ \A r \in db.servers :
              LET n == Row(db'.servers, KeyOf(r)) IN
              n = [r EXCEPT !.name = n.name, !.info = n.info,
                            !.news = n.news, !.players = n.players,
                            !.max_players = n.max_players, !.icon = n.icon,
                            !.last_queried = n.last_queried,
                            !.query_failures = n.query_failures]]_vars

\* The call read two rows, ("a", 2) was removed by another thread, and the
\* call has returned after a successful query of each: the favorite row of
\* ("a", 1) has the answer and its source, and ("a", 2) has no row.
C40_Witness ==
    /\ reval.pc = "returned"
    /\ Len(reval.servers) = 2 /\ reval.success_count = 2
    /\ Has(prior.servers, <<"a", 2>>) /\ ~Has(db.servers, <<"a", 2>>)
    /\ Has(db.servers, <<"a", 1>>)
    /\ Row(db.servers, <<"a", 1>>).source = "favorite"
    /\ Row(db.servers, <<"a", 1>>).name = Some("Test")
    /\ reval.log[Len(reval.log)] = <<"update_server_info", <<"a", 2>>>>

====
